---- MODULE Spec2Model ----
(***************************************************************************)
(* Model of the chess-ai board engine (package game, board.go) and of the  *)
(* way its callers drive it: a caller asks IsValidMove and, when the move  *)
(* is accepted, applies it with MakeMove.                                  *)
(*                                                                         *)
(* Squares are (Row, Col) with row 0 = black's back rank and row 7 =       *)
(* white's back rank, exactly as in the source.                            *)
(***************************************************************************)
EXTENDS Integers, Sequences, FiniteSets, TLC

(***************************************************************************)
(* Types and constants of package game                                     *)
(***************************************************************************)
White == 0
Black == 1

Empty == 0
Pawn == 1
Knight == 2
Bishop == 3
Rook == 4
Queen == 5
King == 6

MoveLimit == 200

Position(r, c) == [Row |-> r, Col |-> c]
Piece(t, c) == [Type |-> t, Color |-> c]
Move(f, t) == [From |-> f, To |-> t]

Rows == 0..7
Squares == {Position(r, c) : r \in Rows, c \in Rows}
Moves == {Move(f, t) : f \in Squares, t \in Squares}

\* a nil *Position is the empty sequence, &Position{..} a one-element sequence
Nil == <<>>
Ptr(pos) == <<pos>>

abs(x) == IF x < 0 THEN -x ELSE x
min(a, b) == IF a < b THEN a ELSE b
max(a, b) == IF a > b THEN a ELSE b

(***************************************************************************)
(* NewBoard / setupInitialPosition                                         *)
(***************************************************************************)
BackRank == <<Rook, Knight, Bishop, Queen, King, Bishop, Knight, Rook>>

setupInitialPosition ==
  [r \in Rows |-> [c \in Rows |->
     CASE r = 0 -> Piece(BackRank[c + 1], Black)
       [] r = 1 -> Piece(Pawn, Black)
       [] r = 6 -> Piece(Pawn, White)
       [] r = 7 -> Piece(BackRank[c + 1], White)
       [] OTHER -> Piece(Empty, White)]]

NewBoard ==
  [Cells |-> setupInitialPosition,
   CurrentTurn |-> White,
   GameOver |-> FALSE,
   Winner |-> White,
   IsCheck |-> FALSE,
   EnPassantTarget |-> Nil,
   WhiteKingMoved |-> FALSE,
   BlackKingMoved |-> FALSE,
   WhiteRookAMoved |-> FALSE,
   WhiteRookHMoved |-> FALSE,
   BlackRookAMoved |-> FALSE,
   BlackRookHMoved |-> FALSE,
   MovesCount |-> 0]

(***************************************************************************)
(* Clone: a field-by-field copy; Cells is a Go array (copied by value) and *)
(* the en-passant pointer is re-allocated.                                 *)
(***************************************************************************)
\* Clone that forgets the en-passant target
CloneWithoutEnPassant(b) ==
  [Cells |-> b.Cells,
   CurrentTurn |-> b.CurrentTurn,
   GameOver |-> b.GameOver,
   Winner |-> b.Winner,
   IsCheck |-> b.IsCheck,
   EnPassantTarget |-> Nil,
   WhiteKingMoved |-> b.WhiteKingMoved,
   BlackKingMoved |-> b.BlackKingMoved,
   WhiteRookAMoved |-> b.WhiteRookAMoved,
   WhiteRookHMoved |-> b.WhiteRookHMoved,
   BlackRookAMoved |-> b.BlackRookAMoved,
   BlackRookHMoved |-> b.BlackRookHMoved,
   MovesCount |-> b.MovesCount]

Clone(b) ==
  [Cells |-> b.Cells,
   CurrentTurn |-> b.CurrentTurn,
   GameOver |-> b.GameOver,
   Winner |-> b.Winner,
   IsCheck |-> b.IsCheck,
   EnPassantTarget |-> IF b.EnPassantTarget # Nil
                       THEN Ptr(Position(b.EnPassantTarget[1].Row, b.EnPassantTarget[1].Col))
                       ELSE Nil,
   WhiteKingMoved |-> b.WhiteKingMoved,
   BlackKingMoved |-> b.BlackKingMoved,
   WhiteRookAMoved |-> b.WhiteRookAMoved,
   WhiteRookHMoved |-> b.WhiteRookHMoved,
   BlackRookAMoved |-> b.BlackRookAMoved,
   BlackRookHMoved |-> b.BlackRookHMoved,
   MovesCount |-> b.MovesCount]

(***************************************************************************)
(* Piece movement rules                                                    *)
(***************************************************************************)
\* the loop walks from From towards To one step at a time; for the aligned
\* moves it is called with, it visits the squares strictly between them
isPathClear(b, move) ==
  LET rowStep == IF move.To.Row > move.From.Row THEN 1
                 ELSE IF move.To.Row < move.From.Row THEN -1 ELSE 0
      colStep == IF move.To.Col > move.From.Col THEN 1
                 ELSE IF move.To.Col < move.From.Col THEN -1 ELSE 0
      n == max(abs(move.To.Row - move.From.Row), abs(move.To.Col - move.From.Col))
  IN \A k \in 1..(n - 1) :
       b.Cells[move.From.Row + k * rowStep][move.From.Col + k * colStep].Type = Empty

\* pawn rule that compares only the column of the en-passant target
isValidPawnMoveAnyRow(b, move, piece) ==
  LET direction == IF piece.Color = Black THEN 1 ELSE -1
      startRow == IF piece.Color = Black THEN 1 ELSE 6
      rowDiff == move.To.Row - move.From.Row
      colDiff == move.To.Col - move.From.Col
      target == b.Cells[move.To.Row][move.To.Col]
  IN IF colDiff = 0 /\ rowDiff = direction
       THEN target.Type = Empty
     ELSE IF colDiff = 0 /\ rowDiff = 2 * direction /\ move.From.Row = startRow
       THEN /\ b.Cells[move.From.Row + direction][move.From.Col].Type = Empty
            /\ target.Type = Empty
     ELSE IF abs(colDiff) = 1 /\ rowDiff = direction
       THEN \/ target.Type # Empty /\ target.Color # piece.Color
            \/ /\ b.EnPassantTarget # Nil
               /\ move.To.Col = b.EnPassantTarget[1].Col
     ELSE FALSE

isValidPawnMove(b, move, piece) ==
  LET direction == IF piece.Color = Black THEN 1 ELSE -1
      startRow == IF piece.Color = Black THEN 1 ELSE 6
      rowDiff == move.To.Row - move.From.Row
      colDiff == move.To.Col - move.From.Col
      target == b.Cells[move.To.Row][move.To.Col]
  IN IF colDiff = 0 /\ rowDiff = direction
       THEN target.Type = Empty
     ELSE IF colDiff = 0 /\ rowDiff = 2 * direction /\ move.From.Row = startRow
       THEN /\ b.Cells[move.From.Row + direction][move.From.Col].Type = Empty
            /\ target.Type = Empty
     ELSE IF abs(colDiff) = 1 /\ rowDiff = direction
       THEN \/ target.Type # Empty /\ target.Color # piece.Color
            \/ /\ b.EnPassantTarget # Nil
               /\ move.To.Row = b.EnPassantTarget[1].Row
               /\ move.To.Col = b.EnPassantTarget[1].Col
     ELSE FALSE

\* knight rule that lost the two-rows-one-column case
isValidKnightMoveWide(move) ==
  LET rowDiff == abs(move.To.Row - move.From.Row)
      colDiff == abs(move.To.Col - move.From.Col)
  IN rowDiff = 1 /\ colDiff = 2

isValidKnightMove(move) ==
  LET rowDiff == abs(move.To.Row - move.From.Row)
      colDiff == abs(move.To.Col - move.From.Col)
  IN (rowDiff = 2 /\ colDiff = 1) \/ (rowDiff = 1 /\ colDiff = 2)

isValidBishopMove(b, move) ==
  LET rowDiff == abs(move.To.Row - move.From.Row)
      colDiff == abs(move.To.Col - move.From.Col)
  IN IF rowDiff # colDiff THEN FALSE ELSE isPathClear(b, move)

isValidRookMove(b, move) ==
  IF move.From.Row # move.To.Row /\ move.From.Col # move.To.Col
  THEN FALSE
  ELSE isPathClear(b, move)

isValidQueenMove(b, move) ==
  isValidBishopMove(b, move) \/ isValidRookMove(b, move)

(***************************************************************************)
(* Attack detection                                                        *)
(***************************************************************************)
\* first king of that colour in scan order (rows 0..7, columns 0..7)
findKing(b, color) ==
  LET kings == {p \in Squares : b.Cells[p.Row][p.Col] = Piece(King, color)}
  IN IF kings = {}
     THEN Position(-1, -1)
     ELSE CHOOSE p \in kings :
            \A q \in kings : p.Row < q.Row \/ (p.Row = q.Row /\ p.Col <= q.Col)

isSquareUnderAttack(b, pos, byColor) ==
  \E row \in Rows, col \in Rows :
    LET piece == b.Cells[row][col]
        from == Position(row, col)
        move == Move(from, pos)
    IN /\ piece.Type # Empty
       /\ piece.Color = byColor
       /\ CASE piece.Type = Pawn ->
                 LET direction == IF piece.Color = Black THEN 1 ELSE -1
                 IN pos.Row - from.Row = direction /\ abs(pos.Col - from.Col) = 1
            [] piece.Type = Knight -> isValidKnightMove(move)
            [] piece.Type = Bishop -> isValidBishopMove(b, move)
            [] piece.Type = Rook -> isValidRookMove(b, move)
            [] piece.Type = Queen -> isValidQueenMove(b, move)
            [] piece.Type = King ->
                 abs(pos.Row - from.Row) <= 1 /\ abs(pos.Col - from.Col) <= 1
            [] OTHER -> FALSE

isInCheck(b, color) ==
  LET kingPos == findKing(b, color)
      opponentColor == IF color = Black THEN White ELSE Black
  IN IF kingPos.Row = -1 THEN FALSE
     ELSE isSquareUnderAttack(b, kingPos, opponentColor)

\* check simulation that copies the piece to To without vacating From
wouldBeInCheckKeepFrom(b, move, color) ==
  LET tempBoard == Clone(b)
      piece == tempBoard.Cells[move.From.Row][move.From.Col]
      cells1 == [tempBoard.Cells EXCEPT ![move.To.Row][move.To.Col] = piece]
  IN isInCheck([tempBoard EXCEPT !.Cells = cells1], color)

\* plays the move on a temporary copy: only the moving piece is relocated
wouldBeInCheck(b, move, color) ==
  LET tempBoard == Clone(b)
      piece == tempBoard.Cells[move.From.Row][move.From.Col]
      cells1 == [tempBoard.Cells EXCEPT ![move.To.Row][move.To.Col] = piece]
      cells2 == [cells1 EXCEPT ![move.From.Row][move.From.Col] = Piece(Empty, White)]
  IN isInCheck([tempBoard EXCEPT !.Cells = cells2], color)

(***************************************************************************)
(* Castling and king moves                                                 *)
(***************************************************************************)
canCastle(b, move, piece) ==
  LET isKingSide == move.To.Col > move.From.Col
      rookCol == IF isKingSide THEN 7 ELSE 0
      rookMoved == IF piece.Color = White
                   THEN (IF isKingSide THEN b.WhiteRookHMoved ELSE b.WhiteRookAMoved)
                   ELSE (IF isKingSide THEN b.BlackRookHMoved ELSE b.BlackRookAMoved)
      rook == b.Cells[move.From.Row][rookCol]
      minCol == min(move.From.Col, rookCol)
      maxCol == max(move.From.Col, rookCol)
      opponentColor == IF piece.Color = Black THEN White ELSE Black
      step == IF move.To.Col < move.From.Col THEN -1 ELSE 1
  IN IF piece.Color = White /\ b.WhiteKingMoved THEN FALSE
     ELSE IF piece.Color = Black /\ b.BlackKingMoved THEN FALSE
     ELSE IF rookMoved THEN FALSE
     ELSE IF rook.Type # Rook \/ rook.Color # piece.Color THEN FALSE
     ELSE IF \E col \in (minCol + 1)..(maxCol - 1) :
               b.Cells[move.From.Row][col].Type # Empty THEN FALSE
     ELSE IF isSquareUnderAttack(b, move.From, opponentColor) THEN FALSE
     ELSE ~ \E k \in 1..abs(move.To.Col - move.From.Col) :
              isSquareUnderAttack(b, Position(move.From.Row, move.From.Col + k * step),
                                  opponentColor)

isValidKingMove(b, move, piece) ==
  LET rowDiff == abs(move.To.Row - move.From.Row)
      colDiff == abs(move.To.Col - move.From.Col)
  IN IF rowDiff <= 1 /\ colDiff <= 1 THEN TRUE
     ELSE IF rowDiff = 0 /\ colDiff = 2 THEN canCastle(b, move, piece)
     ELSE FALSE

(***************************************************************************)
(* IsValidMove                                                             *)
(***************************************************************************)
\* IsValidMove without the test for a piece of the own colour on the destination
IsValidMoveOntoOwnPiece(b, move) ==
  IF move.From.Row < 0 \/ move.From.Row > 7 \/ move.From.Col < 0 \/ move.From.Col > 7
    THEN FALSE
  ELSE IF move.To.Row < 0 \/ move.To.Row > 7 \/ move.To.Col < 0 \/ move.To.Col > 7
    THEN FALSE
  ELSE
    LET piece == b.Cells[move.From.Row][move.From.Col]
        validMove == CASE piece.Type = Pawn -> isValidPawnMove(b, move, piece)
                       [] piece.Type = Knight -> isValidKnightMove(move)
                       [] piece.Type = Bishop -> isValidBishopMove(b, move)
                       [] piece.Type = Rook -> isValidRookMove(b, move)
                       [] piece.Type = Queen -> isValidQueenMove(b, move)
                       [] piece.Type = King -> isValidKingMove(b, move, piece)
                       [] OTHER -> FALSE
    IN IF piece.Type = Empty THEN FALSE
       ELSE IF piece.Color # b.CurrentTurn THEN FALSE
       ELSE IF ~validMove THEN FALSE
       ELSE ~wouldBeInCheck(b, move, piece.Color)

IsValidMove(b, move) ==
  IF move.From.Row < 0 \/ move.From.Row > 7 \/ move.From.Col < 0 \/ move.From.Col > 7
    THEN FALSE
  ELSE IF move.To.Row < 0 \/ move.To.Row > 7 \/ move.To.Col < 0 \/ move.To.Col > 7
    THEN FALSE
  ELSE
    LET piece == b.Cells[move.From.Row][move.From.Col]
        target == b.Cells[move.To.Row][move.To.Col]
        validMove == CASE piece.Type = Pawn -> isValidPawnMove(b, move, piece)
                       [] piece.Type = Knight -> isValidKnightMove(move)
                       [] piece.Type = Bishop -> isValidBishopMove(b, move)
                       [] piece.Type = Rook -> isValidRookMove(b, move)
                       [] piece.Type = Queen -> isValidQueenMove(b, move)
                       [] piece.Type = King -> isValidKingMove(b, move, piece)
                       [] OTHER -> FALSE
    IN IF piece.Type = Empty THEN FALSE
       ELSE IF piece.Color # b.CurrentTurn THEN FALSE
       ELSE IF target.Type # Empty /\ target.Color = piece.Color THEN FALSE
       ELSE IF ~validMove THEN FALSE
       ELSE ~wouldBeInCheck(b, move, piece.Color)

(***************************************************************************)
(* GetLegalMoves: source squares in scan order, then destinations in scan  *)
(* order                                                                   *)
(***************************************************************************)
ScanOrder == [i \in 1..64 |-> Position((i - 1) \div 8, (i - 1) % 8)]
ScanMoves ==
  [i \in 1..4096 |-> Move(ScanOrder[((i - 1) \div 64) + 1], ScanOrder[((i - 1) % 64) + 1])]

\* enumeration with the loops nested the other way round: destinations
\* outside, sources inside
GetLegalMovesByDestination(b) ==
  SelectSeq([i \in 1..4096 |-> Move(ScanMoves[i].To, ScanMoves[i].From)],
            LAMBDA move :
              LET piece == b.Cells[move.From.Row][move.From.Col]
              IN /\ ~(piece.Type = Empty \/ piece.Color # b.CurrentTurn)
                 /\ IsValidMove(b, move))

GetLegalMoves(b) ==
  SelectSeq(ScanMoves,
            LAMBDA move :
              LET piece == b.Cells[move.From.Row][move.From.Col]
              IN /\ ~(piece.Type = Empty \/ piece.Color # b.CurrentTurn)
                 /\ IsValidMove(b, move))

(***************************************************************************)
(* checkGameOver and MakeMove                                              *)
(***************************************************************************)
\* on mate, names the mated side as the winner
checkGameOverMatedWins(b) ==
  LET moves == GetLegalMoves(b)
      b1 == IF Len(moves) = 0
            THEN [b EXCEPT !.GameOver = TRUE,
                           !.Winner = IF isInCheck(b, b.CurrentTurn)
                                      THEN b.CurrentTurn
                                      ELSE White]
            ELSE b
  IN IF b1.MovesCount > MoveLimit
     THEN [b1 EXCEPT !.GameOver = TRUE, !.Winner = White]
     ELSE b1

\* only the move limit ends the game
checkGameOverLimitOnly(b) ==
  IF b.MovesCount > MoveLimit
  THEN [b EXCEPT !.GameOver = TRUE, !.Winner = White]
  ELSE b

checkGameOver(b) ==
  LET moves == GetLegalMoves(b)
      b1 == IF Len(moves) = 0
            THEN [b EXCEPT !.GameOver = TRUE,
                           !.Winner = IF isInCheck(b, b.CurrentTurn)
                                      THEN (IF b.CurrentTurn = White THEN Black ELSE White)
                                      ELSE White]
            ELSE b
  IN IF b1.MovesCount > MoveLimit
     THEN [b1 EXCEPT !.GameOver = TRUE, !.Winner = White]
     ELSE b1

\* MakeMove without the promotion
MakeMoveNoPromotion(b, move) ==
  LET piece == b.Cells[move.From.Row][move.From.Col]
      \* en-passant capture: remove the pawn behind the destination square
      c1 == IF /\ piece.Type = Pawn
               /\ b.EnPassantTarget # Nil
               /\ move.To.Row = b.EnPassantTarget[1].Row
               /\ move.To.Col = b.EnPassantTarget[1].Col
            THEN IF piece.Color = White
                 THEN [b.Cells EXCEPT ![move.To.Row + 1][move.To.Col] = Piece(Empty, White)]
                 ELSE [b.Cells EXCEPT ![move.To.Row - 1][move.To.Col] = Piece(Empty, White)]
            ELSE b.Cells
      \* castling: relocate the rook
      c2 == IF piece.Type = King /\ abs(move.To.Col - move.From.Col) = 2
            THEN IF move.To.Col > move.From.Col
                 THEN [c1 EXCEPT ![move.From.Row][5] = c1[move.From.Row][7],
                                 ![move.From.Row][7] = Piece(Empty, White)]
                 ELSE [c1 EXCEPT ![move.From.Row][3] = c1[move.From.Row][0],
                                 ![move.From.Row][0] = Piece(Empty, White)]
            ELSE c1
      c3 == [[c2 EXCEPT ![move.To.Row][move.To.Col] = piece]
                 EXCEPT ![move.From.Row][move.From.Col] = Piece(Empty, White)]
      \* the pawn stays a pawn on the far rank
      c4 == c3
      ep == IF piece.Type = Pawn /\ abs(move.To.Row - move.From.Row) = 2
            THEN Ptr(Position((move.From.Row + move.To.Row) \div 2, move.To.Col))
            ELSE Nil
      isRook(color, col) == piece.Type = Rook /\ piece.Color = color /\ move.From.Col = col
      b1 == [b EXCEPT
               !.Cells = c4,
               !.EnPassantTarget = ep,
               !.WhiteKingMoved = @ \/ (piece.Type = King /\ piece.Color = White),
               !.BlackKingMoved = @ \/ (piece.Type = King /\ piece.Color # White),
               !.WhiteRookAMoved = @ \/ isRook(White, 0),
               !.WhiteRookHMoved = @ \/ isRook(White, 7),
               !.BlackRookAMoved = @ \/ (piece.Type = Rook /\ piece.Color # White
                                          /\ move.From.Col = 0),
               !.BlackRookHMoved = @ \/ (piece.Type = Rook /\ piece.Color # White
                                          /\ move.From.Col = 7),
               !.CurrentTurn = IF b.CurrentTurn = White THEN Black ELSE White,
               !.MovesCount = b.MovesCount + 1]
      b2 == [b1 EXCEPT !.IsCheck = isInCheck(b1, b1.CurrentTurn)]
  IN checkGameOver(b2)

MakeMove(b, move) ==
  LET piece == b.Cells[move.From.Row][move.From.Col]
      \* en-passant capture: remove the pawn behind the destination square
      c1 == IF /\ piece.Type = Pawn
               /\ b.EnPassantTarget # Nil
               /\ move.To.Row = b.EnPassantTarget[1].Row
               /\ move.To.Col = b.EnPassantTarget[1].Col
            THEN IF piece.Color = White
                 THEN [b.Cells EXCEPT ![move.To.Row + 1][move.To.Col] = Piece(Empty, White)]
                 ELSE [b.Cells EXCEPT ![move.To.Row - 1][move.To.Col] = Piece(Empty, White)]
            ELSE b.Cells
      \* castling: relocate the rook
      c2 == IF piece.Type = King /\ abs(move.To.Col - move.From.Col) = 2
            THEN IF move.To.Col > move.From.Col
                 THEN [c1 EXCEPT ![move.From.Row][5] = c1[move.From.Row][7],
                                 ![move.From.Row][7] = Piece(Empty, White)]
                 ELSE [c1 EXCEPT ![move.From.Row][3] = c1[move.From.Row][0],
                                 ![move.From.Row][0] = Piece(Empty, White)]
            ELSE c1
      c3 == [[c2 EXCEPT ![move.To.Row][move.To.Col] = piece]
                 EXCEPT ![move.From.Row][move.From.Col] = Piece(Empty, White)]
      \* promotion to queen
      c4 == IF /\ piece.Type = Pawn
               /\ \/ piece.Color = White /\ move.To.Row = 0
                  \/ piece.Color = Black /\ move.To.Row = 7
            THEN [c3 EXCEPT ![move.To.Row][move.To.Col] = Piece(Queen, piece.Color)]
            ELSE c3
      ep == IF piece.Type = Pawn /\ abs(move.To.Row - move.From.Row) = 2
            THEN Ptr(Position((move.From.Row + move.To.Row) \div 2, move.To.Col))
            ELSE Nil
      isRook(color, col) == piece.Type = Rook /\ piece.Color = color /\ move.From.Col = col
      b1 == [b EXCEPT
               !.Cells = c4,
               !.EnPassantTarget = ep,
               !.WhiteKingMoved = @ \/ (piece.Type = King /\ piece.Color = White),
               !.BlackKingMoved = @ \/ (piece.Type = King /\ piece.Color # White),
               !.WhiteRookAMoved = @ \/ isRook(White, 0),
               !.WhiteRookHMoved = @ \/ isRook(White, 7),
               !.BlackRookAMoved = @ \/ (piece.Type = Rook /\ piece.Color # White
                                          /\ move.From.Col = 0),
               !.BlackRookHMoved = @ \/ (piece.Type = Rook /\ piece.Color # White
                                          /\ move.From.Col = 7),
               !.CurrentTurn = IF b.CurrentTurn = White THEN Black ELSE White,
               !.MovesCount = b.MovesCount + 1]
      b2 == [b1 EXCEPT !.IsCheck = isInCheck(b1, b1.CurrentTurn)]
  IN checkGameOver(b2)

(***************************************************************************)
(* Floating-point values.  Probabilities and rewards are fixed-point       *)
(* numbers with One standing for 1.0.  Evaluations are integers, with NaN  *)
(* for the not-a-number value (every comparison with it is false) and      *)
(* MaxFloat64 above every evaluation.  A learning target is kept exact as  *)
(* the record of reward, gamma and discount that stands for                *)
(* reward * gamma^discount.                                                *)
(***************************************************************************)
One == 1000000000
MaxFloat64 == 9
NaN == MaxFloat64 + 90

Gt(x, y) == x # NaN /\ y # NaN /\ x > y
Lt(x, y) == x # NaN /\ y # NaN /\ x < y
Le(x, y) == x # NaN /\ y # NaN /\ x <= y
mathMax(x, y) == IF x = NaN \/ y = NaN THEN NaN ELSE IF x > y THEN x ELSE y
mathMin(x, y) == IF x = NaN \/ y = NaN THEN NaN ELSE IF x < y THEN x ELSE y

\* x * n / d, rounded down, without leaving 32 bits
Scaled(x, n, d) == (x \div d) * n + ((x % d) * n) \div d

(***************************************************************************)
(* The network.  Its weights are one value: NaNWeights for weights that    *)
(* hold a NaN in the output layer, otherwise a number below NumWeights.    *)
(* Forward is a function of the weights and the input, with values -1, 0   *)
(* and 1 of the tanh range; Train moves the weights on.                    *)
(***************************************************************************)
NumWeights == 3
NaNWeights == NumWeights

RECURSIVE Checksum(_)
Checksum(input) ==
  IF input = {} THEN 0
  ELSE LET i == CHOOSE j \in input : \A k \in input : j <= k
       IN (i + Checksum(input \ {i})) % 3

\* the output as a function of the weights and the checksum of the input
Output(weights, checksum) ==
  IF weights = NaNWeights THEN NaN
  ELSE (((weights + 1) * checksum) % 3) - 1

Forward(weights, input) == Output(weights, Checksum(input))

Train(weights, input, target) ==
  IF weights = NaNWeights THEN NaNWeights ELSE (weights + 1) % NumWeights

(***************************************************************************)
(* The agent.  Network is the identity of the network the agent points to; *)
(* an input vector is the set of its indices that hold 1.0.                *)
(***************************************************************************)
NewAgent(color, network) ==
  [Network |-> network, Color |-> color, Epsilon |-> One \div 10,
   Gamma |-> Scaled(One, 99, 100), StateHistory |-> << >>]

boardToVector(b) ==
  {((IF b.Cells[p.Row][p.Col].Color = White THEN 0 ELSE 6)
      + (b.Cells[p.Row][p.Col].Type - 1)) * 64 + p.Row * 8 + p.Col :
     p \in {q \in Squares : b.Cells[q.Row][q.Col].Type # Empty}}

evaluatePosition(weights, b) == Forward(weights, boardToVector(b))

\* Move{From: Position{-1, -1}} and the zero value Move{}
NoBestMove == [From |-> [Row |-> -1, Col |-> -1], To |-> [Row |-> 0, Col |-> 0]]
ZeroMove == [From |-> [Row |-> 0, Col |-> 0], To |-> [Row |-> 0, Col |-> 0]]

RECURSIVE minimax(_, _, _, _, _, _)
RECURSIVE maximize(_, _, _, _, _, _, _, _, _)
RECURSIVE minimize(_, _, _, _, _, _, _, _, _)

\* a loop that also takes a move whose value equals the best so far
maximizeStepLast(weights, b, depth, moves, i, alpha, beta, maxEval, bestMove, eval) ==
  LET maxEval1 == IF ~Lt(eval, maxEval) THEN eval ELSE maxEval
      bestMove1 == IF ~Lt(eval, maxEval) THEN moves[i] ELSE bestMove
      alpha1 == mathMax(alpha, eval)
  IN IF Le(beta, alpha1)
     THEN [eval |-> maxEval1, move |-> bestMove1]
     ELSE maximize(weights, b, depth, moves, i + 1, alpha1, beta, maxEval1, bestMove1)

\* the body of the maximizing loop for the i-th move, whose value is eval
maximizeStep(weights, b, depth, moves, i, alpha, beta, maxEval, bestMove, eval) ==
  LET maxEval1 == IF Gt(eval, maxEval) THEN eval ELSE maxEval
      bestMove1 == IF Gt(eval, maxEval) THEN moves[i] ELSE bestMove
      alpha1 == mathMax(alpha, eval)
  IN IF Le(beta, alpha1)
     THEN [eval |-> maxEval1, move |-> bestMove1]
     ELSE maximize(weights, b, depth, moves, i + 1, alpha1, beta, maxEval1, bestMove1)

maximize(weights, b, depth, moves, i, alpha, beta, maxEval, bestMove) ==
  IF i > Len(moves) THEN [eval |-> maxEval, move |-> bestMove]
  ELSE maximizeStep(weights, b, depth, moves, i, alpha, beta, maxEval, bestMove,
                    minimax(weights, MakeMove(Clone(b), moves[i]), depth - 1,
                            alpha, beta, FALSE).eval)

\* the body of the minimizing loop for the i-th move, whose value is eval
minimizeStep(weights, b, depth, moves, i, alpha, beta, minEval, bestMove, eval) ==
  LET minEval1 == IF Lt(eval, minEval) THEN eval ELSE minEval
      bestMove1 == IF Lt(eval, minEval) THEN moves[i] ELSE bestMove
      beta1 == mathMin(beta, eval)
  IN IF Le(beta1, alpha)
     THEN [eval |-> minEval1, move |-> bestMove1]
     ELSE minimize(weights, b, depth, moves, i + 1, alpha, beta1, minEval1, bestMove1)

minimize(weights, b, depth, moves, i, alpha, beta, minEval, bestMove) ==
  IF i > Len(moves) THEN [eval |-> minEval, move |-> bestMove]
  ELSE minimizeStep(weights, b, depth, moves, i, alpha, beta, minEval, bestMove,
                    minimax(weights, MakeMove(Clone(b), moves[i]), depth - 1,
                            alpha, beta, TRUE).eval)

\* the loops of minimax over the legal moves of b
minimaxOver(weights, b, depth, alpha, beta, maximizing, moves) ==
  IF Len(moves) = 0
  THEN [eval |-> evaluatePosition(weights, b), move |-> NoBestMove]
  ELSE IF maximizing
       THEN maximize(weights, b, depth, moves, 1, alpha, beta, -MaxFloat64, NoBestMove)
       ELSE minimize(weights, b, depth, moves, 1, alpha, beta, MaxFloat64, NoBestMove)

minimax(weights, b, depth, alpha, beta, maximizing) ==
  IF depth = 0 \/ b.GameOver
  THEN [eval |-> evaluatePosition(weights, b), move |-> NoBestMove]
  ELSE minimaxOver(weights, b, depth, alpha, beta, maximizing, GetLegalMoves(b))

\* ChooseMove that returns whatever the search returned
ChooseAmongNoFallback(moves, bestMove, a, coin, pick) ==
  IF Len(moves) = 0 THEN ZeroMove
  ELSE IF coin < a.Epsilon THEN moves[pick + 1]
  ELSE bestMove

\* ChooseMove once the legal moves and the result of the search are known;
\* coin is the value of rand.Float64(), pick the value of rand.Intn(len(moves))
ChooseAmong(moves, bestMove, a, coin, pick) ==
  IF Len(moves) = 0 THEN ZeroMove
  ELSE IF coin < a.Epsilon THEN moves[pick + 1]
  ELSE IF bestMove.From.Row = -1 THEN moves[pick + 1]
  ELSE bestMove

ChooseMove(a, weights, b, coin, pick) ==
  ChooseAmong(GetLegalMoves(b),
              minimax(weights, b, 2, -MaxFloat64, MaxFloat64, TRUE).move,
              a, coin, pick)

RecordState(a, b) == [a EXCEPT !.StateHistory = Append(@, boardToVector(b))]

\* a loop that leaves the reward as it is
Undiscounted(reward, gamma) == reward

\* reward *= gamma
Discounted(reward, gamma) ==
  [reward |-> reward.reward, gamma |-> gamma, discount |-> reward.discount + 1]

\* the Train calls of the loop of Learn from state i down, each with its
\* input and its target
RECURSIVE LearnLoop(_, _, _)
LearnLoop(a, i, reward) ==
  IF i >= 1
  THEN <<[network |-> a.Network, input |-> a.StateHistory[i], target |-> reward]>>
         \o LearnLoop(a, i - 1, Discounted(reward, a.Gamma))
  ELSE << >>

TrainCalls(a, finalReward) ==
  IF Len(a.StateHistory) = 0 THEN << >>
  ELSE LearnLoop(a, Len(a.StateHistory),
                 [reward |-> finalReward, gamma |-> a.Gamma, discount |-> 0])

\* the decay without its floor
DecayNoFloor(epsilon) == Scaled(epsilon, 995, 1000)

\* Epsilon *= 0.995, and 0.01 if that is less than 0.01
Decay(epsilon) ==
  LET e == Scaled(epsilon, 995, 1000)
  IN IF e < One \div 100 THEN One \div 100 ELSE e

Learn(a, finalReward) ==
  IF Len(a.StateHistory) = 0 THEN a
  ELSE [a EXCEPT !.Epsilon = Decay(@)]

\* the weights of every network after a sequence of Train calls
RECURSIVE TrainAll(_, _)
TrainAll(weights, calls) ==
  IF calls = << >> THEN weights
  ELSE LET call == Head(calls)
       IN TrainAll([weights EXCEPT ![call.network] = Train(@, call.input, call.target)],
                   Tail(calls))

\* the reversed, discounted experiences of agent a, to be trained on network
Experiences(a, network, reward) ==
  LearnLoop([a EXCEPT !.Network = network], Len(a.StateHistory),
            [reward |-> reward, gamma |-> a.Gamma, discount |-> 0])

\* the Train calls of trainSharedNetwork and the two agents after it
SharedTrainCalls(white, black, whiteReward, blackReward) ==
  Experiences(white, white.Network, whiteReward)
    \o Experiences(black, white.Network, blackReward)

trainSharedNetwork(a) == [a EXCEPT !.Epsilon = Decay(@)]

(***************************************************************************)
(* Games.  Every game starts from NewBoard; a caller submits a move, the   *)
(* board accepts it with IsValidMove and applies it with MakeMove.  A game *)
(* follows the opening of one recorded line and may leave it for freely    *)
(* chosen moves from ply FreeFrom of that line on.                         *)
(***************************************************************************)
MaxFree == 1

S(fr, fc, tr, tc) == Move(Position(fr, fc), Position(tr, tc))

\* 1. f3 e6 2. g4 Qh4#
FoolsMate == <<S(6, 5, 5, 5), S(1, 4, 2, 4), S(6, 6, 4, 6), S(0, 3, 4, 7)>>

\* 1. e4 c6 2. e5 Qa5 3. Ke2 a6 4. Kf3 b6 5. Kg4 Ra7 6. Kh5 d5 7. exd6 e.p.
EnPassantPin ==
  <<S(6, 4, 4, 4), S(1, 2, 2, 2), S(4, 4, 3, 4), S(0, 3, 3, 0), S(7, 4, 6, 4),
    S(1, 0, 2, 0), S(6, 4, 5, 5), S(1, 1, 2, 1), S(5, 5, 4, 6), S(0, 0, 1, 0),
    S(4, 6, 3, 7), S(1, 3, 3, 3), S(3, 4, 2, 3)>>

\* 1. g4 b6 2. a4 Bb7 3. Ra3 Bxh1 4. Rg3 a6 5. Nh3 c6 6. Rg1 h6 7. Rxh1 g6
\* 8. Bg2 a5
RookSwap ==
  <<S(6, 6, 4, 6), S(1, 1, 2, 1), S(6, 0, 4, 0), S(0, 2, 1, 1), S(7, 0, 5, 0),
    S(1, 1, 7, 7), S(5, 0, 5, 6), S(1, 0, 2, 0), S(7, 6, 5, 7), S(1, 2, 2, 2),
    S(5, 6, 7, 6), S(1, 7, 2, 7), S(7, 6, 7, 7), S(1, 6, 2, 6), S(7, 5, 6, 6),
    S(2, 0, 3, 0)>>

\* 1. e3 a5 2. Qh5 Ra6 3. Qxa5 h5 4. h4 Rah6 5. Qxc7 f6 6. Qxd7+ Kf7
\* 7. Qxb7 Qd3 8. Qxb8 Qh7 9. Qxc8 Kg6 10. Qe6 stalemate
Stalemate ==
  <<S(6, 4, 5, 4), S(1, 0, 3, 0), S(7, 3, 3, 7), S(0, 0, 2, 0), S(3, 7, 3, 0),
    S(1, 7, 3, 7), S(6, 7, 4, 7), S(2, 0, 2, 7), S(3, 0, 1, 2), S(1, 5, 2, 5),
    S(1, 2, 1, 3), S(0, 4, 1, 5), S(1, 3, 1, 1), S(0, 3, 5, 3), S(1, 1, 0, 1),
    S(5, 3, 1, 7), S(0, 1, 0, 2), S(1, 5, 2, 6), S(0, 2, 2, 4)>>

\* 1. e4 e5 2. Qh5 Ke7 3. Qxe5#
QueenCheck == <<S(6, 4, 4, 4), S(1, 4, 3, 4), S(7, 3, 3, 7), S(0, 4, 1, 4), S(3, 7, 3, 4)>>

\* 1. e4 e5 2. Bc4 Nc6 3. Qh5 Nf6 4. Qxf7#
ScholarsMate ==
  <<S(6, 4, 4, 4), S(1, 4, 3, 4), S(7, 5, 4, 2), S(0, 1, 2, 2), S(7, 3, 3, 7),
    S(0, 6, 2, 5), S(3, 7, 1, 5)>>

\* 1. e4 e5 2. Nf3 Nf6 3. Be2 Be7, and White may castle
ShortCastle ==
  <<S(6, 4, 4, 4), S(1, 4, 3, 4), S(7, 6, 5, 5), S(0, 6, 2, 5), S(7, 5, 6, 4),
    S(0, 5, 1, 4)>>

\* the knights go out and back until the move counter reaches the limit,
\* then 1. f3 e6 2. g4 Qh4#
KnightShuffle == <<S(7, 6, 5, 5), S(0, 6, 2, 5), S(5, 5, 7, 6), S(2, 5, 0, 6)>>
LongGame == [i \in 1..MoveLimit |-> KnightShuffle[((i - 1) % 4) + 1]] \o FoolsMate

\* 1. e4 f6 2. Qh5+ g6 3. Be2 gxh5 4. Bxh5#
BishopMate ==
  <<S(6, 4, 4, 4), S(1, 5, 2, 5), S(7, 3, 3, 7), S(1, 6, 2, 6), S(7, 5, 6, 4),
    S(2, 6, 3, 7), S(6, 4, 3, 7)>>

Lines ==
  <<<< >>, FoolsMate, EnPassantPin, RookSwap, Stalemate, QueenCheck, ScholarsMate,
    ShortCastle, LongGame, BishopMate>>
FreeFrom == <<0, 3, 12, 16, 18, 4, 6, 6, MoveLimit + 2, 7>>

VARIABLES
  board,     \* the game's Board
  clone,     \* Nil, or the Board returned by board.Clone()
  legalMoves, \* Nil, or the result of the last GetLegalMoves() on board
  prev,      \* history: Nil, or the board before the last applied move
  lastMove,  \* history: Nil, or the last move applied to board
  unmoved,   \* history: squares whose piece has never moved in this game
  line,      \* the recorded line this game follows
  step,      \* plies of the line played so far
  free,      \* freely chosen moves played so far
  networks,  \* the weights of every Network, by identity
  agents,    \* the Agent objects, by the name of the field that holds them
  chosen,    \* history: Nil, or the last call of ChooseMove and its result
  learned,   \* history: Nil, or the last learning update and its Train calls
  goroutines, \* the goroutines that run, in the order started
  aiStates,  \* history: the board vectors before each AI move of this game
  resets,    \* the number of reset requests served
  stats,     \* Nil, or the Statistics object
  db,        \* Nil, or the Database object
  files,     \* the files on disk, by path: Nil, or the content
  rates,     \* LearningRate and Momentum of every Network, by identity
  ui         \* the WebUI's mutex, selfPlayRunning and selfPlayStop

vars ==
  <<board, clone, legalMoves, prev, lastMove, unmoved, line, step, free,
    networks, agents, chosen, learned, goroutines, aiStates, resets,
    stats, db, files, rates, ui>>

storeVars == <<stats, db, files, rates, ui>>

agentVars ==
  <<networks, agents, chosen, learned, goroutines, aiStates, resets, storeVars>>

\* a new board before the first move
InitBoard ==
  /\ board = NewBoard
  /\ clone = Nil
  /\ legalMoves = Nil
  /\ prev = Nil
  /\ lastMove = Nil
  /\ unmoved = {p \in Squares : NewBoard.Cells[p.Row][p.Col].Type # Empty}
  /\ step = 0
  /\ free = 0

\* a new game on a new board
InitGame ==
  /\ InitBoard
  /\ line \in 1..Len(Lines)
  /\ stats = Nil
  /\ db = Nil
  /\ files = << >>
  /\ rates = << >>
  /\ ui = Nil

\* the board alone, without an agent
Init ==
  /\ InitGame
  /\ networks = << >>
  /\ agents = << >>
  /\ chosen = Nil
  /\ learned = Nil
  /\ goroutines = << >>
  /\ aiStates = << >>
  /\ resets = 0

\* the caller's check-then-apply of one submitted move
PlayMove(move) ==
  /\ IsValidMove(board, move)
  /\ board' = MakeMove(board, move)
  /\ prev' = <<board>>
  /\ lastMove' = <<move>>
  /\ unmoved' = {p \in unmoved : p # move.To
                                 /\ board'.Cells[p.Row][p.Col] = board.Cells[p.Row][p.Col]}
  /\ legalMoves' = Nil
  /\ UNCHANGED <<clone, line>>

LineMove ==
  /\ free = 0
  /\ step < Len(Lines[line])
  /\ PlayMove(Lines[line][step + 1])
  /\ step' = step + 1
  /\ UNCHANGED free
  /\ UNCHANGED agentVars

FreeMove ==
  /\ free < MaxFree
  /\ step >= FreeFrom[line]
  /\ \E move \in Moves : PlayMove(move)
  /\ free' = free + 1
  /\ UNCHANGED step
  /\ UNCHANGED agentVars

\* a caller asks for the list of legal moves
LegalMoves ==
  /\ legalMoves = Nil
  /\ step >= FreeFrom[line]
  /\ legalMoves' = <<GetLegalMoves(board)>>
  /\ UNCHANGED <<board, clone, prev, lastMove, unmoved, line, step, free>>
  /\ UNCHANGED agentVars

Next == LineMove \/ FreeMove \/ LegalMoves

Spec == Init /\ [][Next]_vars

(***************************************************************************)
(* Cloning: a caller takes board.Clone() and then plays on the clone       *)
(* (search works on copies) while the game goes on along its line on the   *)
(* original.                                                               *)
(***************************************************************************)
CloneBoard ==
  /\ clone = Nil
  /\ free = 0
  /\ step = FreeFrom[line]
  /\ clone' = <<Clone(board)>>
  /\ UNCHANGED <<board, legalMoves, prev, lastMove, unmoved, line, step, free>>
  /\ UNCHANGED agentVars

CloneMove ==
  /\ clone # Nil
  /\ free < MaxFree
  /\ \E move \in Moves :
       /\ IsValidMove(clone[1], move)
       /\ clone' = <<MakeMove(clone[1], move)>>
  /\ free' = free + 1
  /\ UNCHANGED <<board, legalMoves, prev, lastMove, unmoved, line, step>>
  /\ UNCHANGED agentVars

NextClone == LineMove \/ CloneBoard \/ CloneMove

SpecClone == Init /\ [][NextClone]_vars

(***************************************************************************)
(* Choosing a move: a caller hands the board of a game to ChooseMove of an *)
(* agent.  The agent's epsilon, the weights of its network and the values  *)
(* of the two random draws are inputs of the call.                         *)
(***************************************************************************)
Epsilons == {0, One \div 100, One \div 10, One}
Coins == {0, One \div 20, One \div 2}

\* the plies of each line at which the agent is asked: the start, positions
\* with a mate in one and with an en-passant capture, the ends of the games
\* and a board past the move limit
ChooseAt ==
  <<{0}, {3, 4}, {12}, {}, {19}, {5}, {7}, {}, {MoveLimit + 2, MoveLimit + 4}, {3}>>

ChooseWith(weights, moves, bestMove) ==
  \E epsilon \in Epsilons, coin \in Coins, pick \in 0..max(0, Len(moves) - 1) :
    chosen' = <<[board |-> board,
                 branch |-> IF Len(moves) = 0 THEN "none"
                            ELSE IF coin < epsilon THEN "random"
                            ELSE IF bestMove.From.Row = -1 THEN "fallback"
                            ELSE "minimax",
                 move |-> ChooseAmong(moves, bestMove,
                                      [NewAgent(board.CurrentTurn, 1) EXCEPT
                                         !.Epsilon = epsilon],
                                      coin, pick)]>>

Choose ==
  /\ chosen = Nil
  /\ step \in ChooseAt[line]
  /\ \E weights \in 0..NumWeights :
       ChooseWith(weights, GetLegalMoves(board),
                  minimax(weights, board, 2, -MaxFloat64, MaxFloat64, TRUE).move)
  /\ UNCHANGED <<board, clone, legalMoves, prev, lastMove, unmoved, line, step, free, storeVars>>
  /\ UNCHANGED <<networks, agents, learned, goroutines, aiStates, resets>>

NextChoose == LineMove \/ Choose

SpecChoose == Init /\ [][NextChoose]_vars

(***************************************************************************)
(* The web UI.  One client sends the moves of its line as move requests    *)
(* (for both colours: handleMove accepts whatever IsValidMove accepts) and *)
(* may send a reset request, after which it starts its line again.  Every  *)
(* handler runs under the mutex from its first to its last statement and   *)
(* is one step.  An AI goroutine takes its steps between its lock          *)
(* operations: it waits for the mutex ("start"), clones the board and      *)
(* records the state, searches without the mutex ("search", and "forward"  *)
(* once the search is inside Network.Forward), and takes the mutex again   *)
(* to apply its move and return.  The last move a goroutine applied is     *)
(* kept in chosen, with the clone it was searched on and the shared board  *)
(* it was applied to.                                                      *)
(***************************************************************************)
MaxGoroutines == 2
MaxResets == 1
MaxPick == 1
\* the search is followed from positions with at most this many legal moves
MaxSearchMoves == 1

WebLines == {2, 10}
\* the plies of each line after which the client may send its reset request
ResetAt == <<{}, {2}, {}, {}, {}, {}, {}, {}, {}, {}>>

Goroutine(pc) == [pc |-> pc, boardClone |-> Nil, weights |-> Nil]

\* the goroutines without the one that returns
Return(gs, i) == SubSeq(gs, 1, i - 1) \o SubSeq(gs, i + 1, Len(gs))

InitWeb ==
  /\ InitGame
  /\ line \in WebLines
  /\ networks = <<NumWeights - 1>>
  /\ agents = [agent |-> NewAgent(Black, 1)]
  /\ chosen = Nil
  /\ learned = Nil
  /\ goroutines = << >>
  /\ aiStates = << >>
  /\ resets = 0

colorToString(c) == IF c = White THEN "white" ELSE "black"

\* handleGameEnd on the shared board b; applied is the history of the AI
\* moves of the game, result the GameResult handed to statistics.AddGame
handleGameEnd(b, applied) ==
  LET a == agents.agent
      isDraw == b.GameOver /\ ~b.IsCheck
      reward == IF isDraw THEN One \div 2
                ELSE IF b.Winner = a.Color THEN One
                ELSE 0
      calls == TrainCalls(a, reward)
  IN /\ networks' = TrainAll(networks, calls)
     /\ agents' = [agents EXCEPT !.agent = [Learn(a, reward) EXCEPT !.StateHistory = << >>]]
     /\ learned' = <<[agent |-> "agent",
                      history |-> a.StateHistory,
                      reward |-> reward,
                      calls |-> calls,
                      epsilon |-> a.Epsilon,
                      decayed |-> Learn(a, reward).Epsilon,
                      left |-> agents'.agent.StateHistory,
                      aiStates |-> applied,
                      board |-> b,
                      result |-> [Winner |-> IF isDraw THEN "draw" ELSE colorToString(b.Winner),
                                  MovesCount |-> b.MovesCount],
                      forward |-> {i \in 1..Len(goroutines) : goroutines[i].pc = "forward"}]>>

\* the statements of handleMove and of the goroutine after MakeMove
AfterMakeMove(applied) ==
  IF board'.GameOver
  THEN /\ handleGameEnd(board', applied)
       /\ aiStates' = << >>
  ELSE /\ aiStates' = applied
       /\ UNCHANGED <<networks, agents, learned>>

\* handleMove for the request move
handleMove(move) ==
  IF ~IsValidMove(board, move)
  THEN UNCHANGED <<board, networks, agents, learned, goroutines, aiStates>>
  ELSE /\ board' = MakeMove(board, move)
       /\ AfterMakeMove(aiStates)
       /\ IF ~board'.GameOver /\ board'.CurrentTurn = agents.agent.Color
          THEN /\ Len(goroutines) < MaxGoroutines
               /\ goroutines' = Append(goroutines, Goroutine("start"))
          ELSE UNCHANGED goroutines

HandleMove ==
  /\ step < Len(Lines[line])
  /\ handleMove(Lines[line][step + 1])
  /\ step' = step + 1
  /\ UNCHANGED <<clone, legalMoves, prev, lastMove, unmoved, line, free, storeVars, chosen, resets>>

\* the assignments of handleReset to the fields of the shared board
handleReset(b) ==
  [b EXCEPT !.CurrentTurn = White,
            !.GameOver = FALSE,
            !.Winner = White,
            !.EnPassantTarget = Nil,
            !.WhiteKingMoved = FALSE,
            !.WhiteRookAMoved = FALSE,
            !.WhiteRookHMoved = FALSE,
            !.BlackKingMoved = FALSE,
            !.BlackRookAMoved = FALSE,
            !.BlackRookHMoved = FALSE,
            !.MovesCount = 0,
            !.Cells = setupInitialPosition]

HandleReset ==
  /\ resets < MaxResets
  /\ step \in ResetAt[line]
  /\ board' = handleReset(board)
  /\ resets' = resets + 1
  /\ step' = 0
  /\ aiStates' = << >>
  /\ UNCHANGED <<clone, legalMoves, prev, lastMove, unmoved, line, free, storeVars>>
  /\ UNCHANGED <<networks, agents, chosen, learned, goroutines>>

\* the goroutine takes the mutex, clones the board and records the state
GoRecord(i) ==
  /\ goroutines[i].pc = "start"
  /\ goroutines' = [goroutines EXCEPT ![i] =
                      [@ EXCEPT !.pc = "search", !.boardClone = <<Clone(board)>>]]
  /\ agents' = [agents EXCEPT !.agent = RecordState(@, Clone(board))]
  /\ UNCHANGED <<board, clone, legalMoves, prev, lastMove, unmoved, line, step, free, storeVars>>
  /\ UNCHANGED <<networks, chosen, learned, aiStates, resets>>

\* ChooseMove has drawn a number that is not below epsilon and minimax has
\* entered Network.Forward
GoForward(i) ==
  /\ goroutines[i].pc = "search"
  /\ agents.agent.Epsilon < One
  /\ Len(GetLegalMoves(goroutines[i].boardClone[1])) \in 1..MaxSearchMoves
  /\ goroutines' = [goroutines EXCEPT ![i] =
                      [@ EXCEPT !.pc = "forward",
                                !.weights = <<networks[agents.agent.Network]>>]]
  /\ UNCHANGED <<board, clone, legalMoves, prev, lastMove, unmoved, line, step, free, storeVars>>
  /\ UNCHANGED <<networks, agents, chosen, learned, aiStates, resets>>

\* the move ChooseMove returned to goroutine g.  A search that ran while the
\* weights were trained may have read them before or after the update.
SearchWeights(g) ==
  IF g.pc = "forward"
  THEN {g.weights[1], networks[agents.agent.Network]}
  ELSE {networks[agents.agent.Network]}

aiMoveOf(g, moves, weights, pick) ==
  ChooseAmong(moves,
              minimax(weights, g.boardClone[1], 2, -MaxFloat64, MaxFloat64, TRUE).move,
              agents.agent,
              IF g.pc = "forward" THEN agents.agent.Epsilon ELSE 0,
              pick)

\* MakeMove(aiMove) and what follows it
GoMakeMove(i, aiMove) ==
  /\ board' = MakeMove(board, aiMove)
  /\ AfterMakeMove(Append(aiStates, boardToVector(board)))
  /\ chosen' = <<[board |-> goroutines[i].boardClone[1], shared |-> board,
                   move |-> aiMove]>>
  /\ goroutines' = Return(goroutines, i)

GoMakeMoves(i, moves) ==
  \E pick \in 0..max(0, min(Len(moves), MaxPick) - 1) :
    \E weights \in SearchWeights(goroutines[i]) :
      GoMakeMove(i, aiMoveOf(goroutines[i], moves, weights, pick))

\* ChooseMove returns, the goroutine takes the mutex again and applies its
\* move, or drops it
GoApply(i) ==
  /\ goroutines[i].pc \in {"search", "forward"}
  /\ IF ~board.GameOver /\ board.CurrentTurn = agents.agent.Color
     THEN /\ goroutines[i].pc = "search" =>
               (agents.agent.Epsilon > 0
                  \/ Len(GetLegalMoves(goroutines[i].boardClone[1])) = 0)
          /\ GoMakeMoves(i, GetLegalMoves(goroutines[i].boardClone[1]))
     ELSE /\ goroutines' = Return(goroutines, i)
          /\ UNCHANGED <<board, networks, agents, chosen, learned, aiStates>>
  /\ UNCHANGED <<clone, legalMoves, prev, lastMove, unmoved, line, step, free, storeVars, resets>>

Record == \E i \in 1..Len(goroutines) : GoRecord(i)

Forwarding == \E i \in 1..Len(goroutines) : GoForward(i)

Apply == \E i \in 1..Len(goroutines) : GoApply(i)

NextWeb == HandleMove \/ HandleReset \/ Record \/ Forwarding \/ Apply

SpecWeb == InitWeb /\ [][NextWeb]_vars

(***************************************************************************)
(* Self-play.  One goroutine runs the loop of a driver: PlayGame of the    *)
(* SelfPlayManager, which ends in trainSharedNetwork in one version of the *)
(* file and in two Learn calls in the other, or runSelfPlay of the web UI. *)
(* Every turn of a game loop is one step.  With epsilon never below 0.01   *)
(* ChooseMove can return every legal move, and the games played are those  *)
(* of the recorded lines.  The goroutine's record holds its position and   *)
(* the number of learning updates it has made.                             *)
(***************************************************************************)
MaxLearns == 2
MaxErrors == 1
MaxGameMoves == 200

SelfPlayLines == {2, 5, 9, 10}

\* NewSelfPlayManager: blackAgent.Network = whiteAgent.Network
ManagerAgents ==
  [whiteAgent |-> NewAgent(White, 1), blackAgent |-> NewAgent(Black, 1)]

\* NewWebUI: three agents, each with the network NewAgent made for it
WebAgents ==
  [agent |-> NewAgent(Black, 1), whiteAgent |-> NewAgent(White, 2),
   blackAgent |-> NewAgent(Black, 3)]

IsManager == "agent" \notin DOMAIN agents

InitSelfPlay ==
  /\ InitGame
  /\ line = 1
  /\ \/ agents = ManagerAgents /\ networks = <<NumWeights - 1>>
     \/ agents = WebAgents /\ networks = <<NumWeights - 1, NumWeights - 1, NumWeights - 1>>
  /\ chosen = Nil
  /\ learned = Nil
  /\ goroutines = <<[pc |-> "start", learns |-> 0, errors |-> 0]>>
  /\ aiStates = << >>
  /\ resets = 0

currentAgent(b) == IF b.CurrentTurn = White THEN "whiteAgent" ELSE "blackAgent"

\* board := game.NewBoard() of PlayGame, which leaves the histories as the
\* call before left them, and the reset of runSelfPlay, which empties them
NewGame ==
  /\ goroutines[1].pc \in {"start", "failed"}
  /\ goroutines[1].learns < MaxLearns
  /\ board' = NewBoard
  /\ line' \in SelfPlayLines
  /\ step' = 0
  /\ agents' = IF IsManager
               THEN agents
               ELSE [agents EXCEPT !.whiteAgent.StateHistory = << >>,
                                   !.blackAgent.StateHistory = << >>]
  /\ goroutines' = [goroutines EXCEPT ![1].pc = "game"]
  /\ UNCHANGED <<clone, legalMoves, prev, lastMove, unmoved, free, storeVars>>
  /\ UNCHANGED <<networks, chosen, learned, aiStates, resets>>

\* one turn of the game loop: RecordState, ChooseMove, MakeMove
GameLoopMove(moves, move) ==
  /\ \E pick \in 0..(Len(moves) - 1) :
       ChooseAmong(moves, NoBestMove, agents[currentAgent(board)], 0, pick) = move
  /\ move.From.Row # -1
  /\ agents' = [agents EXCEPT ![currentAgent(board)] = RecordState(@, board)]
  /\ board' = MakeMove(board, move)
  /\ step' = step + 1
  /\ UNCHANGED <<clone, legalMoves, prev, lastMove, unmoved, line, free, storeVars>>
  /\ UNCHANGED <<networks, chosen, learned, goroutines, aiStates, resets>>

PlayGameMove ==
  /\ IsManager
  /\ goroutines[1].pc = "game"
  /\ ~board.GameOver /\ step < MaxGameMoves
  /\ step < Len(Lines[line])
  /\ GameLoopMove(GetLegalMoves(board), Lines[line][step + 1])

SelfPlayMove ==
  /\ ~IsManager
  /\ goroutines[1].pc = "game"
  /\ ~board.GameOver
  /\ step < Len(Lines[line])
  /\ GameLoopMove(GetLegalMoves(board), Lines[line][step + 1])

\* the result PlayGame derives from the board after its loop
GameResult(b) ==
  IF b.GameOver
  THEN IF b.Winner = White
       THEN [winner |-> "white", whiteReward |-> One, blackReward |-> 0]
       ELSE IF b.Winner = Black
            THEN [winner |-> "black", whiteReward |-> 0, blackReward |-> One]
            ELSE [winner |-> "draw", whiteReward |-> One \div 2, blackReward |-> One \div 2]
  ELSE [winner |-> "draw", whiteReward |-> One \div 2, blackReward |-> One \div 2]

\* what a learning update of the two agents leaves behind
Learned(driver, result, calls) ==
  <<[agent |-> "whiteAgent, blackAgent",
     driver |-> driver,
     board |-> board,
     plies |-> step,
     result |-> result,
     whiteHistory |-> agents.whiteAgent.StateHistory,
     blackHistory |-> agents.blackAgent.StateHistory,
     whiteEpsilon |-> agents.whiteAgent.Epsilon,
     blackEpsilon |-> agents.blackAgent.Epsilon,
     calls |-> calls,
     networks |-> networks]>>

LearnBoth(driver, result, calls, white, black) ==
  /\ networks' = TrainAll(networks, calls)
  /\ agents' = [agents EXCEPT !.whiteAgent = white, !.blackAgent = black]
  /\ learned' = Learned(driver, result, calls)
  /\ UNCHANGED <<board, clone, legalMoves, prev, lastMove, unmoved, line, step, free, storeVars>>
  /\ UNCHANGED <<chosen, aiStates, resets>>

\* the end of PlayGame in the version that calls Learn for each agent
PlayGameLearn ==
  /\ IsManager
  /\ goroutines[1].pc = "game"
  /\ board.GameOver \/ step >= MaxGameMoves
  /\ LET result == GameResult(board)
     IN LearnBoth("PlayGame", result,
                  TrainCalls(agents.whiteAgent, result.whiteReward)
                    \o TrainCalls(agents.blackAgent, result.blackReward),
                  [Learn(agents.whiteAgent, result.whiteReward) EXCEPT
                     !.StateHistory = << >>],
                  [Learn(agents.blackAgent, result.blackReward) EXCEPT
                     !.StateHistory = << >>])
  /\ goroutines' = [goroutines EXCEPT ![1].pc = "start", ![1].learns = @ + 1]

\* the end of PlayGame in the version that calls trainSharedNetwork
PlayGameTrainShared ==
  /\ IsManager
  /\ goroutines[1].pc = "game"
  /\ board.GameOver \/ step >= MaxGameMoves
  /\ LET result == GameResult(board)
     IN LearnBoth("PlayGame", result,
                  SharedTrainCalls(agents.whiteAgent, agents.blackAgent,
                                   result.whiteReward, result.blackReward),
                  [trainSharedNetwork(agents.whiteAgent) EXCEPT !.StateHistory = << >>],
                  [trainSharedNetwork(agents.blackAgent) EXCEPT !.StateHistory = << >>])
  /\ goroutines' = [goroutines EXCEPT ![1].pc = "start", ![1].learns = @ + 1]

\* the end of PlayGame when RecordMove or FinishGame returns an error (the
\* write of saveData failed): PlayGame returns the error at once
PlayGameStoreError ==
  /\ IsManager
  /\ goroutines[1].pc = "game"
  /\ board.GameOver \/ step >= MaxGameMoves
  /\ goroutines[1].errors < MaxErrors
  /\ goroutines' = [goroutines EXCEPT ![1].pc = "failed", ![1].errors = @ + 1]
  /\ UNCHANGED <<board, clone, legalMoves, prev, lastMove, unmoved, line, step, free, storeVars>>
  /\ UNCHANGED <<networks, agents, chosen, learned, aiStates, resets>>

\* the turn of the loop of runSelfPlay that finds the game over: its break
\* leaves the select statement only, and the loop goes on
SelfPlayLearn ==
  /\ ~IsManager
  /\ goroutines[1].pc = "game"
  /\ goroutines[1].learns < MaxLearns
  /\ board.GameOver
  /\ LET whiteReward == IF board.Winner = White THEN One
                        ELSE IF board.Winner = Black THEN 0 ELSE One \div 2
         blackReward == IF board.Winner = White THEN 0
                        ELSE IF board.Winner = Black THEN One ELSE One \div 2
     IN LearnBoth("runSelfPlay",
                  [winner |-> "", whiteReward |-> whiteReward, blackReward |-> blackReward],
                  TrainCalls(agents.whiteAgent, whiteReward)
                    \o TrainCalls(agents.blackAgent, blackReward),
                  Learn(agents.whiteAgent, whiteReward),
                  Learn(agents.blackAgent, blackReward))
  /\ goroutines' = [goroutines EXCEPT ![1].learns = @ + 1]

NextSelfPlay ==
  \/ NewGame
  \/ PlayGameMove
  \/ SelfPlayMove
  \/ PlayGameLearn
  \/ PlayGameTrainShared
  \/ PlayGameStoreError
  \/ SelfPlayLearn

SpecSelfPlay == InitSelfPlay /\ [][NextSelfPlay]_vars

(***************************************************************************)
(* Learning on its own, as the tests of the agent package call it: states  *)
(* are recorded on the boards of TestLearn, in any number up to            *)
(* MaxHistory, for two agents that share a network, and a learning update  *)
(* is made with any reward, by Learn for one agent or by                   *)
(* trainSharedNetwork for both, after which the histories are cleared.     *)
(***************************************************************************)
MaxHistory == 2

Rewards == {0, One \div 2, One}
RewardPairs == {<<One, 0>>, <<0, One>>, <<One \div 2, One \div 2>>}

\* the boards of TestLearn: the new board and the board after e2-e4
LearnBoards == {NewBoard, MakeMove(NewBoard, S(6, 4, 4, 4))}

\* what a learning update of the agents of the set who leaves behind; after
\* is the agents record when the update has returned
Update(path, who, rewards, calls, after) ==
  <<[agent |-> "",
     path |-> path,
     histories |-> [a \in who |-> agents[a].StateHistory],
     rewards |-> rewards,
     gammas |-> [a \in who |-> agents[a].Gamma],
     networks |-> [a \in who |-> agents[a].Network],
     epsilons |-> [a \in who |-> agents[a].Epsilon],
     decayed |-> [a \in who |-> after[a].Epsilon],
     calls |-> calls]>>

InitLearn ==
  /\ InitGame
  /\ line = 1
  /\ agents = ManagerAgents
  /\ networks = <<NumWeights - 1>>
  /\ chosen = Nil
  /\ learned = Nil
  /\ goroutines = <<[pc |-> "record", learns |-> 0]>>
  /\ aiStates = << >>
  /\ resets = 0

gameVars ==
  <<board, clone, legalMoves, prev, lastMove, unmoved, line, step, free, storeVars>>

TestRecordState ==
  /\ goroutines[1].pc = "record"
  /\ \E who \in DOMAIN agents, b \in LearnBoards :
       /\ Len(agents[who].StateHistory) < MaxHistory
       /\ agents' = [agents EXCEPT ![who] = RecordState(@, b)]
  /\ UNCHANGED gameVars
  /\ UNCHANGED <<networks, chosen, learned, goroutines, aiStates, resets>>

\* networks, agents and learned after an update with these Train calls
Updated(path, who, rewards, calls, after) ==
  /\ networks' = TrainAll(networks, calls)
  /\ agents' = after
  /\ learned' = Update(path, who, rewards, calls, after)

TestLearn ==
  /\ goroutines[1].pc = "record"
  /\ \E who \in DOMAIN agents, reward \in Rewards :
       Updated("Learn", {who}, [a \in {who} |-> reward],
               TrainCalls(agents[who], reward),
               [agents EXCEPT ![who] = Learn(@, reward)])
  /\ goroutines' = [goroutines EXCEPT ![1].pc = "learned", ![1].learns = @ + 1]
  /\ UNCHANGED gameVars
  /\ UNCHANGED <<chosen, aiStates, resets>>

TestTrainShared ==
  /\ goroutines[1].pc = "record"
  /\ \E pair \in RewardPairs :
       Updated("trainSharedNetwork", {"whiteAgent", "blackAgent"},
               [a \in {"whiteAgent", "blackAgent"} |->
                  IF a = "whiteAgent" THEN pair[1] ELSE pair[2]],
               SharedTrainCalls(agents.whiteAgent, agents.blackAgent, pair[1], pair[2]),
               [a \in DOMAIN agents |-> trainSharedNetwork(agents[a])])
  /\ goroutines' = [goroutines EXCEPT ![1].pc = "learned", ![1].learns = @ + 1]
  /\ UNCHANGED gameVars
  /\ UNCHANGED <<chosen, aiStates, resets>>

\* StateHistory = nil after the update, and the test ends
TestClear ==
  /\ goroutines[1].pc = "learned"
  /\ agents' = [a \in DOMAIN agents |-> [agents[a] EXCEPT !.StateHistory = << >>]]
  /\ goroutines' = [goroutines EXCEPT ![1].pc = "done"]
  /\ UNCHANGED gameVars
  /\ UNCHANGED <<networks, chosen, learned, aiStates, resets>>

NextLearn == TestRecordState \/ TestLearn \/ TestTrainShared \/ TestClear

SpecLearn == InitLearn /\ [][NextLearn]_vars

(***************************************************************************)
(* The loop of TestEpsilonDecay, followed for as many turns as it takes    *)
(* epsilon to get from 0.1 to its floor: RecordState on the new board,     *)
(* Learn(1.0), StateHistory = nil.                                         *)
(***************************************************************************)
MaxDecays == 462

InitDecay ==
  /\ InitGame
  /\ line = 1
  /\ agents = [agent |-> NewAgent(Black, 1)]
  /\ networks = <<NumWeights - 1>>
  /\ chosen = Nil
  /\ learned = Nil
  /\ goroutines = <<[pc |-> "record", learns |-> 0]>>
  /\ aiStates = << >>
  /\ resets = 0

EpsilonDecayRecord ==
  /\ goroutines[1].pc = "record"
  /\ goroutines[1].learns < MaxDecays
  /\ agents' = [agents EXCEPT !.agent = RecordState(@, board)]
  /\ goroutines' = [goroutines EXCEPT ![1].pc = "learn"]
  /\ UNCHANGED gameVars
  /\ UNCHANGED <<networks, chosen, learned, aiStates, resets>>

EpsilonDecayLearn ==
  /\ goroutines[1].pc = "learn"
  /\ Updated("Learn", {"agent"}, [a \in {"agent"} |-> One],
             TrainCalls(agents.agent, One),
             [agents EXCEPT !.agent = Learn(@, One)])
  /\ goroutines' = [goroutines EXCEPT ![1].pc = "clear", ![1].learns = @ + 1]
  /\ UNCHANGED gameVars
  /\ UNCHANGED <<chosen, aiStates, resets>>

EpsilonDecayClear ==
  /\ goroutines[1].pc = "clear"
  /\ agents' = [agents EXCEPT !.agent.StateHistory = << >>]
  /\ goroutines' = [goroutines EXCEPT ![1].pc = "record"]
  /\ UNCHANGED gameVars
  /\ UNCHANGED <<networks, chosen, learned, aiStates, resets>>

NextDecay == EpsilonDecayRecord \/ EpsilonDecayLearn \/ EpsilonDecayClear

SpecDecay == InitDecay /\ [][NextDecay]_vars

(***************************************************************************)
(* The rules of chess the properties refer to, stated on the piece layout  *)
(* alone and independently of the engine's own attack test.                *)
(***************************************************************************)
Other(color) == IF color = White THEN Black ELSE White

\* s lies strictly inside the segment from p to q
StrictlyBetween(p, s, q) ==
  /\ s # p
  /\ s # q
  /\ (s.Row - p.Row) * (q.Col - p.Col) = (s.Col - p.Col) * (q.Row - p.Row)
  /\ min(p.Row, q.Row) <= s.Row /\ s.Row <= max(p.Row, q.Row)
  /\ min(p.Col, q.Col) <= s.Col /\ s.Col <= max(p.Col, q.Col)

ClearBetween(cells, p, q) ==
  \A s \in Squares : StrictlyBetween(p, s, q) => cells[s.Row][s.Col].Type = Empty

\* the piece standing on from attacks the square to
Attacks(cells, from, to) ==
  LET pc == cells[from.Row][from.Col]
      dr == to.Row - from.Row
      dc == to.Col - from.Col
      diagonal == abs(dr) = abs(dc) /\ dr # 0
      straight == (dr = 0) # (dc = 0)
  IN CASE pc.Type = Pawn -> dr = (IF pc.Color = White THEN -1 ELSE 1) /\ abs(dc) = 1
       [] pc.Type = Knight -> {abs(dr), abs(dc)} = {1, 2}
       [] pc.Type = King -> max(abs(dr), abs(dc)) = 1
       [] pc.Type = Bishop -> diagonal /\ ClearBetween(cells, from, to)
       [] pc.Type = Rook -> straight /\ ClearBetween(cells, from, to)
       [] pc.Type = Queen -> (diagonal \/ straight) /\ ClearBetween(cells, from, to)
       [] OTHER -> FALSE

RuleAttacked(cells, pos, byColor) ==
  \E from \in Squares :
    /\ cells[from.Row][from.Col].Type # Empty
    /\ cells[from.Row][from.Col].Color = byColor
    /\ Attacks(cells, from, pos)

KingAttacked(cells, color) ==
  \E k \in Squares :
    cells[k.Row][k.Col] = Piece(King, color) /\ RuleAttacked(cells, k, Other(color))

NoLegalMove(b) == \A move \in Moves : ~IsValidMove(b, move)

\* the colour that made the last move
Mover == prev[1].CurrentTurn

\* the last move was a two-square pawn advance
LastWasDoubleAdvance ==
  /\ lastMove # Nil
  /\ prev[1].Cells[lastMove[1].From.Row][lastMove[1].From.Col].Type = Pawn
  /\ lastMove[1].From.Col = lastMove[1].To.Col
  /\ abs(lastMove[1].To.Row - lastMove[1].From.Row) = 2

(***************************************************************************)
(* C1  Full legality: after every move accepted by IsValidMove and applied *)
(* by MakeMove, the king of the side that just moved is not attacked by    *)
(* any opposing piece.                                                     *)
(***************************************************************************)
FullLegality ==
  lastMove # Nil => ~KingAttacked(board.Cells, Mover)

(***************************************************************************)
(* C2  Checkmate detection (as claimed): after a move, a side to move with *)
(* no legal move and its king attacked has lost (GameOver, Winner = the    *)
(* mover); with no legal move and its king not attacked the game is over   *)
(* and drawn (the draw marker Winner = White, no check).                   *)
(***************************************************************************)
CheckmateDetection ==
  (lastMove # Nil /\ NoLegalMove(board)) =>
    /\ board.GameOver
    /\ IF KingAttacked(board.Cells, board.CurrentTurn)
       THEN board.Winner = Mover
       ELSE board.Winner = White /\ ~board.IsCheck

(***************************************************************************)
(* C2 (amended)  The same while the move counter after the move is at most *)
(* 200; once it exceeds 200 the game is over with the draw marker          *)
(* Winner = White whatever the position.                                   *)
(***************************************************************************)
CheckmateDetectionUpToLimit ==
  /\ (lastMove # Nil /\ NoLegalMove(board)) =>
       /\ board.GameOver
       /\ IF board.MovesCount > MoveLimit
          THEN board.Winner = White
          ELSE IF KingAttacked(board.Cells, board.CurrentTurn)
               THEN board.Winner = Mover
               ELSE board.Winner = White /\ ~board.IsCheck
  /\ (lastMove # Nil /\ board.MovesCount > MoveLimit) =>
       board.GameOver /\ board.Winner = White

CheckmateReached ==
  /\ lastMove # Nil
  /\ NoLegalMove(board)
  /\ KingAttacked(board.Cells, board.CurrentTurn)
  /\ board.MovesCount <= MoveLimit
  /\ board.GameOver
  /\ board.Winner = Black
  /\ Mover = Black

(***************************************************************************)
(* C3  Castling rejection: a two-square horizontal king move is rejected   *)
(* whenever the king has moved before, the rook on that side's corner has  *)
(* moved before (or no own rook stands there), a square between king and   *)
(* rook is occupied, or the king's start, transit or destination square is *)
(* attacked.                                                               *)
(***************************************************************************)
CastlingRejection ==
  \A move \in Moves :
    LET color == board.CurrentTurn
        corner == Position(move.From.Row, IF move.To.Col > move.From.Col THEN 7 ELSE 0)
        kingPath == {p \in Squares : /\ p.Row = move.From.Row
                                     /\ min(move.From.Col, move.To.Col) <= p.Col
                                     /\ p.Col <= max(move.From.Col, move.To.Col)}
    IN (/\ board.Cells[move.From.Row][move.From.Col] = Piece(King, color)
        /\ move.From.Row = move.To.Row
        /\ abs(move.To.Col - move.From.Col) = 2
        /\ \/ move.From \notin unmoved
           \/ corner \notin unmoved
           \/ board.Cells[corner.Row][corner.Col] # Piece(Rook, color)
           \/ ~ClearBetween(board.Cells, move.From, corner)
           \/ \E p \in kingPath : RuleAttacked(board.Cells, p, Other(color)))
       => ~IsValidMove(board, move)

(***************************************************************************)
(* C4  En-passant window: EnPassantTarget is set exactly when the last     *)
(* applied move was a two-square pawn advance and then names the square    *)
(* the pawn passed over; a diagonal pawn move onto an empty square is      *)
(* accepted only on the ply right after such an advance, onto that square. *)
(***************************************************************************)
EnPassantWindow ==
  /\ (board.EnPassantTarget # Nil) <=> LastWasDoubleAdvance
  /\ LastWasDoubleAdvance =>
       /\ board.EnPassantTarget[1].Col = lastMove[1].From.Col
       /\ StrictlyBetween(lastMove[1].From, board.EnPassantTarget[1], lastMove[1].To)
  /\ \A move \in Moves :
       (/\ board.Cells[move.From.Row][move.From.Col].Type = Pawn
        /\ move.From.Col # move.To.Col
        /\ board.Cells[move.To.Row][move.To.Col].Type = Empty
        /\ IsValidMove(board, move))
       => /\ LastWasDoubleAdvance
          /\ StrictlyBetween(lastMove[1].From, move.To, lastMove[1].To)

EnPassantOffered ==
  /\ LastWasDoubleAdvance
  /\ \E move \in Moves :
       /\ board.Cells[move.From.Row][move.From.Col].Type = Pawn
       /\ move.From.Col # move.To.Col
       /\ board.Cells[move.To.Row][move.To.Col].Type = Empty
       /\ IsValidMove(board, move)

(***************************************************************************)
(* C5  King invariant: the board holds exactly one white king and exactly  *)
(* one black king.                                                         *)
(***************************************************************************)
KingInvariant ==
  \A color \in {White, Black} :
    Cardinality({p \in Squares : board.Cells[p.Row][p.Col] = Piece(King, color)}) = 1

(***************************************************************************)
(* C6  Fool's Mate: after f2-f3, e7-e6, g2-g4, Qd8-h4 from NewBoard the    *)
(* game is over, the side to move is in check and Black has won.           *)
(***************************************************************************)
FoolsMatePlayed == Lines[line] = FoolsMate /\ step = Len(FoolsMate)

FoolsMateTrace ==
  FoolsMatePlayed => board.GameOver /\ board.IsCheck /\ board.Winner = Black

FoolsMateReached ==
  FoolsMatePlayed /\ board.MovesCount = Len(FoolsMate) /\ lastMove = <<S(0, 3, 4, 7)>>

(***************************************************************************)
(* C7  On a fresh NewBoard GetLegalMoves returns exactly 20 moves: both    *)
(* advances of each white pawn and the two moves of each white knight.     *)
(***************************************************************************)
FirstMoves ==
  {S(6, c, 5, c) : c \in Rows} \cup {S(6, c, 4, c) : c \in Rows}
    \cup {S(7, 1, 5, 0), S(7, 1, 5, 2), S(7, 6, 5, 5), S(7, 6, 5, 7)}

TwentyFirstMoves ==
  (legalMoves # Nil /\ board = NewBoard) =>
    /\ Len(legalMoves[1]) = 20
    /\ {legalMoves[1][i] : i \in 1..Len(legalMoves[1])} = FirstMoves

FirstMovesListed == legalMoves # Nil /\ board = NewBoard /\ Len(legalMoves[1]) > 0

(***************************************************************************)
(* C8  GetLegalMoves returns every move accepted by IsValidMove exactly    *)
(* once and no other, in ascending order of (From.Row, From.Col, To.Row,   *)
(* To.Col), and leaves the board unchanged.                                *)
(***************************************************************************)
Key(move) == ((move.From.Row * 8 + move.From.Col) * 8 + move.To.Row) * 8 + move.To.Col

LegalMovesListed ==
  legalMoves # Nil =>
    /\ {legalMoves[1][i] : i \in 1..Len(legalMoves[1])} = {move \in Moves : IsValidMove(board, move)}
    /\ \A i \in 1..(Len(legalMoves[1]) - 1) : Key(legalMoves[1][i]) < Key(legalMoves[1][i + 1])

LegalMovesExact ==
  /\ []LegalMovesListed
  /\ [][(legalMoves = Nil /\ legalMoves' # Nil) => board' = board]_vars

SeveralMovesListed ==
  /\ legalMoves # Nil
  /\ Len(legalMoves[1]) > 20
  /\ board.IsCheck = FALSE
  /\ lastMove # Nil

(***************************************************************************)
(* C9  Clone independence: Clone returns a board equal to the original in  *)
(* every field, and moves made on the clone leave the original unchanged   *)
(* and the other way round.                                                *)
(***************************************************************************)
CloneIndependence ==
  [][/\ (clone = Nil /\ clone' # Nil) => (clone'[1] = board /\ board' = board)
     /\ (clone # Nil /\ clone' # clone) => board' = board
     /\ (clone # Nil /\ board' # board) => clone' = clone]_vars

CloneDiverged ==
  /\ clone # Nil
  /\ clone[1].Cells # board.Cells
  /\ clone[1].EnPassantTarget # board.EnPassantTarget
  /\ clone[1].MovesCount > 0

(***************************************************************************)
(* C10  A king step (or capture) onto a square that an opposing piece      *)
(* attacks once the king stands there is rejected, also when the square is *)
(* only attacked along a line the king was blocking, and when the king     *)
(* would capture a defended piece.                                         *)
(***************************************************************************)
KingStep(move) ==
  /\ board.Cells[move.From.Row][move.From.Col] = Piece(King, board.CurrentTurn)
  /\ move.From # move.To
  /\ abs(move.To.Row - move.From.Row) <= 1
  /\ abs(move.To.Col - move.From.Col) <= 1

AfterKingStep(move) ==
  [[board.Cells EXCEPT ![move.To.Row][move.To.Col] = Piece(King, board.CurrentTurn)]
                EXCEPT ![move.From.Row][move.From.Col] = Piece(Empty, White)]

KingStepSafe ==
  \A move \in Moves :
    (KingStep(move) /\ RuleAttacked(AfterKingStep(move), move.To, Other(board.CurrentTurn)))
      => ~IsValidMove(board, move)

\* a step onto an empty square that is attacked only through the king's
\* present square
KingStepBehindKing ==
  \E move \in Moves :
    /\ KingStep(move)
    /\ board.Cells[move.To.Row][move.To.Col].Type = Empty
    /\ ~RuleAttacked(board.Cells, move.To, Other(board.CurrentTurn))
    /\ RuleAttacked(AfterKingStep(move), move.To, Other(board.CurrentTurn))
    /\ ~IsValidMove(board, move)

(***************************************************************************)
(* C11: whenever the board handed to ChooseMove has a legal move, the move *)
(* ChooseMove returns is one of the moves GetLegalMoves lists for that     *)
(* board, whichever branch produced it.                                    *)
(***************************************************************************)
ChosenMoveLegal ==
  chosen # Nil =>
    LET moves == GetLegalMoves(chosen[1].board)
    IN Len(moves) > 0 => \E i \in 1..Len(moves) : moves[i] = chosen[1].move

\* the search itself picked a move, and not the first one of the list
ChosenBySearch ==
  /\ chosen # Nil
  /\ chosen[1].branch = "minimax"
  /\ chosen[1].move # GetLegalMoves(chosen[1].board)[1]
  /\ IsValidMove(chosen[1].board, chosen[1].move)

(***************************************************************************)
(* C12: when the board handed to ChooseMove has no legal move, the move    *)
(* returned is the "no move" value its callers test for, From.Row = -1.    *)
(***************************************************************************)
NoMoveSignalled ==
  (chosen # Nil /\ Len(GetLegalMoves(chosen[1].board)) = 0) =>
    chosen[1].move.From.Row = -1

(***************************************************************************)
(* C13: every move an AI goroutine has applied to the shared board was     *)
(* accepted by IsValidMove on the shared board as it was at that moment.   *)
(***************************************************************************)
AIMoveValidated ==
  chosen # Nil => IsValidMove(chosen[1].shared, chosen[1].move)

(***************************************************************************)
(* C14: when a learning update of the web UI trains the network, no AI     *)
(* goroutine is inside a Network.Forward call of its search.               *)
(***************************************************************************)
NoTrainDuringForward ==
  (learned # Nil /\ Len(learned[1].calls) > 0) => learned[1].forward = {}

(***************************************************************************)
(* C17: when handleGameEnd calls Learn, the agent's state history is the   *)
(* sequence of the states before each AI move applied in the game that    *)
(* just ended, and handleGameEnd leaves the history empty.                 *)
(***************************************************************************)
HistoryOfEndedGame ==
  (learned # Nil /\ learned[1].agent = "agent") =>
    /\ learned[1].history = learned[1].aiStates
    /\ learned[1].left = << >>

(***************************************************************************)
(* C15: after every game of PlayGame the learning update uses reward 1.0   *)
(* for the side that gave checkmate and 0.0 for the other side, and 0.5    *)
(* for both sides, with the game stored as a draw, whenever the game ended *)
(* without a checkmate: by stalemate, by the move limit of the board or by *)
(* the 200-move cutoff of the loop.                                        *)
(***************************************************************************)
Checkmated(b) == NoLegalMove(b) /\ KingAttacked(b.Cells, b.CurrentTurn)

PerspectiveRewards ==
  (learned # Nil /\ learned[1].agent # "agent" /\ learned[1].driver = "PlayGame") =>
    LET b == learned[1].board
        result == learned[1].result
        calls == learned[1].calls
        whites == Len(learned[1].whiteHistory)
    IN /\ Checkmated(b) =>
            /\ result.whiteReward = IF b.CurrentTurn = Black THEN One ELSE 0
            /\ result.blackReward = IF b.CurrentTurn = White THEN One ELSE 0
       /\ ~Checkmated(b) =>
            /\ result.whiteReward = One \div 2
            /\ result.blackReward = One \div 2
            /\ result.winner = "draw"
       /\ \A k \in 1..Len(calls) :
            calls[k].target.reward =
              IF k <= whites THEN result.whiteReward ELSE result.blackReward

(***************************************************************************)
(* C16: while a self-play driver, PlayGame or runSelfPlay, plays a game,   *)
(* its white agent and its black agent point to the same Network, whose    *)
(* weights are therefore the same for both.                                *)
(***************************************************************************)
SharedNetwork ==
  goroutines[1].pc = "game" =>
    /\ agents.whiteAgent.Network = agents.blackAgent.Network
    /\ networks[agents.whiteAgent.Network] = networks[agents.blackAgent.Network]

(***************************************************************************)
(* C18: Learn(r) on a history s_0..s_{n-1} with n >= 1 makes exactly n     *)
(* Train calls on the agent's network, on s_{n-1}, s_{n-2}, ..., s_0 in    *)
(* this order, the k-th of them (from k = 0) with target r * gamma^k.      *)
(***************************************************************************)
LearnOrder ==
  (learned # Nil /\ learned[1].path = "Learn") =>
    \A a \in DOMAIN learned[1].histories :
      LET history == learned[1].histories[a]
          calls == learned[1].calls
          n == Len(history)
      IN n >= 1 =>
           /\ Len(calls) = n
           /\ \A k \in 0..(n - 1) :
                /\ calls[k + 1].network = learned[1].networks[a]
                /\ calls[k + 1].input = history[n - k]
                /\ calls[k + 1].target =
                     [reward |-> learned[1].rewards[a],
                      gamma |-> Scaled(One, 99, 100), discount |-> k]

\* an update on two different states with a reward that discounting changes
LearnedTwoStates ==
  /\ learned # Nil
  /\ learned[1].path = "Learn"
  /\ \E a \in DOMAIN learned[1].histories :
       /\ Len(learned[1].histories[a]) = 2
       /\ learned[1].histories[a][1] # learned[1].histories[a][2]
       /\ learned[1].rewards[a] = One
       /\ Len(learned[1].calls) = 2

(***************************************************************************)
(* C19: a learning update for an agent whose state history is empty makes  *)
(* no Train call for it and leaves its epsilon as it was, in Learn and in  *)
(* trainSharedNetwork.                                                     *)
(***************************************************************************)
RECURSIVE TotalLen(_, _)
TotalLen(histories, who) ==
  IF who = {} THEN 0
  ELSE LET a == CHOOSE x \in who : TRUE
       IN Len(histories[a]) + TotalLen(histories, who \ {a})

NoOpOnEmptyHistory ==
  learned # Nil =>
    /\ Len(learned[1].calls) = TotalLen(learned[1].histories, DOMAIN learned[1].histories)
    /\ \A a \in DOMAIN learned[1].histories :
         learned[1].histories[a] = << >> => learned[1].decayed[a] = learned[1].epsilons[a]

(***************************************************************************)
(* C20: every Learn call with a history that is not empty leaves epsilon   *)
(* at max(0.01, 0.995 * old epsilon): epsilon gets strictly smaller unless *)
(* it is 0.01 already, and from 0.1 on it is never below 0.01 and never    *)
(* above 0.1.                                                              *)
(***************************************************************************)
EpsilonDecayStep ==
  /\ agents.agent.Epsilon >= One \div 100
  /\ agents.agent.Epsilon <= One \div 10
  /\ learned # Nil =>
       LET old == learned[1].epsilons.agent
           new == learned[1].decayed.agent
       IN /\ Len(learned[1].histories.agent) > 0
          /\ new = max(One \div 100, Scaled(old, 995, 1000))
          /\ old # One \div 100 => new < old
          /\ old = One \div 100 => new = old

\* the update that brings epsilon down to the floor, and one made there
FloorReached ==
  /\ learned # Nil
  /\ learned[1].epsilons.agent = One \div 100
  /\ learned[1].decayed.agent = One \div 100
  /\ goroutines[1].learns > 1

(***************************************************************************)
(* C21: starting from a new agent, with epsilon 0.1, once 100 or more      *)
(* Learn calls with a history that is not empty have returned, epsilon is  *)
(* the floor 0.01.                                                         *)
(***************************************************************************)
FloorAfterHundred ==
  goroutines[1].learns >= 100 => agents.agent.Epsilon = One \div 100

(***************************************************************************)
(* C22: when RecordMove or FinishGame fails in PlayGame, the learning      *)
(* update of the finished game is applied all the same and both histories  *)
(* are emptied: after the failed call the network has been trained on the  *)
(* game and no state of it is left in a history.                           *)
(***************************************************************************)
StoreErrorRecovered ==
  goroutines[1].pc = "failed" =>
    /\ agents.whiteAgent.StateHistory = << >>
    /\ agents.blackAgent.StateHistory = << >>
    /\ learned # Nil /\ learned[1].board = board

(***************************************************************************)
(* Statistics.  A test starts one goroutine per result, each calls AddGame *)
(* once, and the test waits until all of them have returned.  goroutines   *)
(* holds the test first and the adders after it.  A step of AddGame is the *)
(* Lock, the read of s.Games, the assignment of the appended slice, Save,  *)
(* or the deferred Unlock.                                                 *)
(***************************************************************************)
MaxAdders == 3

StatsFile == "stats/games.json"

\* the result the n-th goroutine of TestConcurrentAccess submits
Result(n) ==
  [GameNumber |-> n, Winner |-> "black", Epsilon |-> One \div 10, MovesCount |-> 30]

\* the contents stats/games.json can have when NewStatistics loads it
StoredGames == {<< >>, <<Result(0)>>}

\* a sync.Mutex: 0 when free, or the number of the goroutine that holds it
NeverLocked(mu) == FALSE

Locked(mu) == mu # 0

\* NewStatistics: an empty list, then Load, which fails when there is no file
NewStatistics(file) ==
  [Games |-> IF file = Nil THEN << >> ELSE file[1], mu |-> 0]

\* no game is played and no agent exists
NoGame ==
  /\ board = NewBoard
  /\ clone = Nil
  /\ legalMoves = Nil
  /\ prev = Nil
  /\ lastMove = Nil
  /\ unmoved = {}
  /\ line = 1
  /\ step = 0
  /\ free = 0
  /\ networks = << >>
  /\ agents = << >>
  /\ chosen = Nil
  /\ learned = Nil
  /\ aiStates = << >>
  /\ resets = 0
  /\ rates = << >>
  /\ ui = Nil

InitStats ==
  /\ NoGame
  /\ db = Nil
  /\ \E file \in {Nil} \cup {<<g>> : g \in StoredGames} :
       /\ files = [f \in {StatsFile} |-> file]
       /\ stats = NewStatistics(file)
       /\ goroutines =
            <<[pc |-> "wait", initialCount |-> Len(NewStatistics(file).Games)]>>
              \o [n \in 1..MaxAdders |-> [pc |-> "lock", result |-> Result(n), games |-> Nil]]

Adders == 2..Len(goroutines)

statsVars ==
  <<board, clone, legalMoves, prev, lastMove, unmoved, line, step, free,
    networks, agents, chosen, learned, aiStates, resets, db, rates, ui>>

\* s.mu.Lock()
AddGameLock(i) ==
  /\ goroutines[i].pc = "lock"
  /\ ~Locked(stats.mu)
  /\ stats' = [stats EXCEPT !.mu = i]
  /\ goroutines' = [goroutines EXCEPT ![i].pc = "append"]
  /\ UNCHANGED <<statsVars, files>>

\* append(s.Games, result): the slice is read
AddGameAppend(i) ==
  /\ goroutines[i].pc = "append"
  /\ goroutines' = [goroutines EXCEPT ![i].pc = "assign", ![i].games = <<stats.Games>>]
  /\ UNCHANGED <<statsVars, stats, files>>

\* s.Games = ...: the appended slice is stored
AddGameAssign(i) ==
  /\ goroutines[i].pc = "assign"
  /\ stats' = [stats EXCEPT !.Games = Append(goroutines[i].games[1], goroutines[i].result)]
  /\ goroutines' = [goroutines EXCEPT ![i].pc = "save", ![i].games = Nil]
  /\ UNCHANGED <<statsVars, files>>

\* Statistics.Save: the file holds the list, unless it cannot be created
Save(fs, s, ok) == IF ok THEN [fs EXCEPT ![StatsFile] = <<s.Games>>] ELSE fs

\* s.Save(), whose error AddGame drops
AddGameSave(i) ==
  /\ goroutines[i].pc = "save"
  /\ \E ok \in BOOLEAN : files' = Save(files, stats, ok)
  /\ goroutines' = [goroutines EXCEPT ![i].pc = "unlock"]
  /\ UNCHANGED <<statsVars, stats>>

\* the deferred s.mu.Unlock(), and the return
AddGameUnlock(i) ==
  /\ goroutines[i].pc = "unlock"
  /\ stats' = [stats EXCEPT !.mu = 0]
  /\ goroutines' = [goroutines EXCEPT ![i].pc = "returned"]
  /\ UNCHANGED <<statsVars, files>>

AllReturned == \A i \in Adders : goroutines[i].pc = "returned"

\* the test has received from done once per goroutine
TestWait ==
  /\ goroutines[1].pc = "wait"
  /\ AllReturned
  /\ goroutines' = [goroutines EXCEPT ![1].pc = "done"]
  /\ UNCHANGED <<statsVars, stats, files>>

StatsLock == \E i \in Adders : AddGameLock(i)

StatsAppend == \E i \in Adders : AddGameAppend(i)

StatsAssign == \E i \in Adders : AddGameAssign(i)

StatsSave == \E i \in Adders : AddGameSave(i)

StatsUnlock == \E i \in Adders : AddGameUnlock(i)

NextStats ==
  StatsLock \/ StatsAppend \/ StatsAssign \/ StatsSave \/ StatsUnlock \/ TestWait

SpecStats == InitStats /\ [][NextStats]_vars

Occurrences(games, result) == Cardinality({k \in 1..Len(games) : games[k] = result})

(***************************************************************************)
(* C23: once the AddGame calls of N concurrent goroutines have all         *)
(* returned, Games holds exactly N entries more than before, the entries   *)
(* it had are still in front, and each submitted result is in it exactly   *)
(* once.                                                                   *)
(***************************************************************************)
NoLostAddGame ==
  AllReturned =>
    /\ Len(stats.Games) = goroutines[1].initialCount + MaxAdders
    /\ \A k \in 1..goroutines[1].initialCount : stats.Games[k] = Result(0)
    /\ \A i \in Adders : Occurrences(stats.Games, goroutines[i].result) = 1

AllAdded == goroutines[1].pc = "done" /\ goroutines[1].initialCount = 1

(***************************************************************************)
(* The database of games, in its JSON form.  Goroutines call StartGame on  *)
(* one Database; between calls the program may close it and open it again  *)
(* on the files it left.  A write of saveData can fail, and then the file  *)
(* keeps what it held.  The first goroutine is the caller that collects    *)
(* what the calls returned, in the order of their critical sections.       *)
(***************************************************************************)
MaxCallers == 2
MaxStarts == 3
MaxReopens == 1

GamesFile == "games.json"
MovesFile == "moves.json"

GameRecord(id) == [ID |-> id, Winner |-> ""]

\* the games a games.json left by an earlier run can hold
StoredRecords == {<< >>, <<GameRecord(1)>>, <<GameRecord(1), GameRecord(2)>>}

\* the stored IDs are not looked at
NextIDFromOne(records, k, nextID) == nextID

RECURSIVE NextID(_, _, _)
\* the loops of loadData: one more than the largest ID, from nextID on
NextID(records, k, nextID) ==
  IF k > Len(records)
  THEN nextID
  ELSE NextID(records, k + 1,
              IF records[k].ID >= nextID THEN records[k].ID + 1 ELSE nextID)

\* NewDatabase with loadData: a file that cannot be read counts as empty
NewDatabase(fs) ==
  LET games == IF fs[GamesFile] = Nil THEN << >> ELSE fs[GamesFile][1]
      moves == IF fs[MovesFile] = Nil THEN << >> ELSE fs[MovesFile][1]
  IN [games |-> games, moves |-> moves, mu |-> 0,
      nextGameID |-> NextID(games, 1, 1), nextMoveID |-> NextID(moves, 1, 1)]

\* saveData: games.json is written first, and moves.json only after it
saveData(fs, d, written) ==
  [f \in DOMAIN fs |->
     IF f = GamesFile /\ written >= 1 THEN <<d.games>>
     ELSE IF f = MovesFile /\ written >= 2 THEN <<d.moves>>
     ELSE fs[f]]

InitDatabase ==
  /\ NoGame
  /\ stats = Nil
  /\ \E records \in StoredRecords, exists \in BOOLEAN :
       /\ exists \/ records = << >>
       /\ files = [f \in {GamesFile, MovesFile} |->
                     IF ~exists THEN Nil
                     ELSE IF f = GamesFile THEN <<records>> ELSE << << >> >>]
  /\ db = NewDatabase(files)
  /\ goroutines = <<[pc |-> "test", ids |-> << >>, reopens |-> 0]>>
                    \o [n \in 1..MaxCallers |-> [pc |-> "idle", gameID |-> 0, err |-> FALSE]]

Callers == 2..Len(goroutines)

databaseVars ==
  <<board, clone, legalMoves, prev, lastMove, unmoved, line, step, free,
    networks, agents, chosen, learned, aiStates, resets, stats, rates, ui>>

\* d.mu.Lock() of StartGame
StartGameLock(i) ==
  /\ goroutines[i].pc = "idle"
  /\ Len(goroutines[1].ids)
       + Cardinality({j \in Callers : goroutines[j].pc # "idle"}) < MaxStarts
  /\ ~Locked(db.mu)
  /\ db' = [db EXCEPT !.mu = i]
  /\ goroutines' = [goroutines EXCEPT ![i].pc = "start"]
  /\ UNCHANGED <<databaseVars, files>>

\* gameID := d.nextGameID; d.nextGameID++; d.games = append(d.games, game)
StartGameAppend(i) ==
  /\ goroutines[i].pc = "start"
  /\ db' = [db EXCEPT !.nextGameID = @ + 1,
                      !.games = Append(@, GameRecord(db.nextGameID))]
  /\ goroutines' = [goroutines EXCEPT ![i].pc = "save", ![i].gameID = db.nextGameID]
  /\ UNCHANGED <<databaseVars, files>>

\* return gameID, d.saveData()
StartGameSave(i) ==
  /\ goroutines[i].pc = "save"
  /\ \E written \in 0..2 :
       /\ files' = saveData(files, db, written)
       /\ goroutines' = [goroutines EXCEPT ![i].pc = "unlock", ![i].err = written < 2]
  /\ UNCHANGED <<databaseVars, db>>

\* the deferred d.mu.Unlock(); the caller has the ID and the error
StartGameUnlock(i) ==
  /\ goroutines[i].pc = "unlock"
  /\ db' = [db EXCEPT !.mu = 0]
  /\ goroutines' =
       [goroutines EXCEPT
          ![i] = [pc |-> "idle", gameID |-> 0, err |-> FALSE],
          ![1].ids = Append(@, [id |-> goroutines[i].gameID, err |-> goroutines[i].err])]
  /\ UNCHANGED <<databaseVars, files>>

\* db.Close() and NewDatabase on the same path, between calls
Reopen ==
  /\ \A i \in Callers : goroutines[i].pc = "idle"
  /\ goroutines[1].reopens < MaxReopens
  /\ db' = NewDatabase(files)
  /\ goroutines' = [goroutines EXCEPT ![1].reopens = @ + 1]
  /\ UNCHANGED <<databaseVars, files>>

DatabaseLock == \E i \in Callers : StartGameLock(i)

DatabaseAppend == \E i \in Callers : StartGameAppend(i)

DatabaseSave == \E i \in Callers : StartGameSave(i)

DatabaseUnlock == \E i \in Callers : StartGameUnlock(i)

NextDatabase ==
  DatabaseLock \/ DatabaseAppend \/ DatabaseSave \/ DatabaseUnlock \/ Reopen

SpecDatabase == InitDatabase /\ [][NextDatabase]_vars

Increasing(ids) == \A j, k \in 1..Len(ids) : j < k => ids[j].id < ids[k].id

Stored(ids) == SelectSeq(ids, LAMBDA r : ~r.err)

(***************************************************************************)
(* C24: the game IDs StartGame returns are strictly increasing, and so     *)
(* pairwise distinct, over all calls, concurrent calls and calls after the *)
(* database was closed and opened again included; an empty database issues *)
(* the ID 1.                                                               *)
(***************************************************************************)
GameIDsIncreasing ==
  /\ Increasing(goroutines[1].ids)
  /\ db.games = << >> => db.nextGameID = 1

(***************************************************************************)
(* C24, amended: the game IDs of the StartGame calls that returned no      *)
(* error are strictly increasing, and so pairwise distinct, concurrent     *)
(* calls and calls after the database was closed and opened again          *)
(* included; an empty database issues the ID 1.                            *)
(***************************************************************************)
StoredGameIDsIncreasing ==
  /\ Increasing(Stored(goroutines[1].ids))
  /\ db.games = << >> => db.nextGameID = 1

IssuedAfterReopen ==
  /\ goroutines[1].reopens = 1
  /\ Len(Stored(goroutines[1].ids)) = MaxStarts
  /\ db.nextGameID > MaxStarts + 1

(***************************************************************************)
(* Saving and loading a network.  neural/weights.gob holds what Save       *)
(* encoded, or what an earlier run or another program left there.  A       *)
(* float64 is a record: a NaN, or a fixed-point number with One for 1.0.   *)
(* gob leaves a field with the zero value out of the encoding, and Decode  *)
(* leaves a field that is not in the encoding as it was.                   *)
(***************************************************************************)
MaxNetworks == 2
MaxSaves == 1

WeightsFile == "neural/weights.gob"

Float(v) == [nan |-> FALSE, v |-> v]
NaNFloat == [nan |-> TRUE, v |-> 0]

FloatLe(x, y) == ~x.nan /\ ~y.nan /\ x.v <= y.v
FloatGt(x, y) == ~x.nan /\ ~y.nan /\ x.v > y.v

InitialLR == Float(One \div 1000)
InitialMomentum == Float(Scaled(One, 9, 10))

\* the values a weights file can hold for LearningRate and for Momentum
StoredRates ==
  {Float(0), InitialLR, Float(One \div 2), Float(One), Float(2 * One),
   Float(0 - One), NaNFloat}

\* the files neural/weights.gob can be: none, one that does not decode, or
\* an encoded Network
StoredNetworks ==
  {Nil, <<[ok |-> FALSE]>>}
    \cup {<<[ok |-> TRUE, weights |-> 0, LearningRate |-> lr, Momentum |-> m]>> :
            lr \in StoredRates, m \in {InitialMomentum, Float(0), Float(2 * One)}}

\* Decode of one float64 field
DecodeField(field, stored) == IF stored = Float(0) THEN field ELSE stored

\* Network.Load: the error, and the fields after it
Load(n, file) ==
  IF file = Nil \/ ~file[1].ok
  THEN [err |-> TRUE, n |-> n]
  ELSE [err |-> FALSE,
        n |-> [weights |-> file[1].weights,
               LearningRate |-> DecodeField(n.LearningRate, file[1].LearningRate),
               Momentum |-> DecodeField(n.Momentum, file[1].Momentum)]]

\* the test NewNetwork makes of a loaded rate
Restored(rate, initial) ==
  IF FloatLe(rate, Float(0)) \/ FloatGt(rate, Float(One)) THEN initial ELSE rate

\* NewNetwork with the weights drawn; the rates are tested after a load
\* that returned no error
NewNetwork(weights, file) ==
  LET n == [weights |-> weights, LearningRate |-> InitialLR, Momentum |-> InitialMomentum]
      loaded == Load(n, file)
  IN IF loaded.err
     THEN n
     ELSE [loaded.n EXCEPT !.LearningRate = Restored(@, InitialLR),
                           !.Momentum = Restored(@, InitialMomentum)]

InitNetwork ==
  /\ NoGame
  /\ stats = Nil
  /\ db = Nil
  /\ files \in [{WeightsFile} -> StoredNetworks]
  /\ goroutines = <<[pc |-> "main", saves |-> 0]>>

networkVars ==
  <<board, clone, legalMoves, prev, lastMove, unmoved, line, step, free,
    agents, chosen, learned, aiStates, resets, stats, db, ui>>

\* neural.NewNetwork()
MakeNetwork ==
  /\ Len(networks) < MaxNetworks
  /\ \E weights \in 0..(NumWeights - 1) :
       LET n == NewNetwork(weights, files[WeightsFile])
       IN /\ networks' = Append(networks, n.weights)
          /\ rates' = Append(rates, [LearningRate |-> n.LearningRate,
                                     Momentum |-> n.Momentum])
  /\ UNCHANGED <<networkVars, files, goroutines>>

\* Agent.Load, which is Network.Load: its error is the caller's to handle
LoadNetwork ==
  /\ \E i \in 1..Len(networks) :
       LET n == [weights |-> networks[i], LearningRate |-> rates[i].LearningRate,
                 Momentum |-> rates[i].Momentum]
           loaded == Load(n, files[WeightsFile])
       IN /\ networks' = [networks EXCEPT ![i] = loaded.n.weights]
          /\ rates' = [rates EXCEPT ![i] = [LearningRate |-> loaded.n.LearningRate,
                                            Momentum |-> loaded.n.Momentum]]
          /\ rates'[i] # rates[i] \/ networks'[i] # networks[i]
  /\ UNCHANGED <<networkVars, files, goroutines>>

\* Agent.Save, which is Network.Save, when the file can be created
SaveNetwork ==
  /\ goroutines[1].saves < MaxSaves
  /\ \E i \in 1..Len(networks) :
       files' = [files EXCEPT ![WeightsFile] =
                   <<[ok |-> TRUE, weights |-> networks[i],
                      LearningRate |-> rates[i].LearningRate,
                      Momentum |-> rates[i].Momentum]>>]
  /\ goroutines' = [goroutines EXCEPT ![1].saves = @ + 1]
  /\ UNCHANGED <<networkVars, networks, rates>>

NextNetwork == MakeNetwork \/ LoadNetwork \/ SaveNetwork

SpecNetwork == InitNetwork /\ [][NextNetwork]_vars

InUnitInterval(x) == FloatGt(x, Float(0)) /\ FloatLe(x, Float(One))

(***************************************************************************)
(* C25: after every load of persisted weights, by NewNetwork or by         *)
(* Network.Load, LearningRate and Momentum of the network are greater than *)
(* 0 and at most 1.                                                        *)
(***************************************************************************)
RatesInUnitInterval ==
  \A i \in 1..Len(rates) :
    InUnitInterval(rates[i].LearningRate) /\ InUnitInterval(rates[i].Momentum)

(***************************************************************************)
(* The input vector in full.  A test walks a game along a recorded line    *)
(* and hands the board to boardToVector at any ply; vectorOf fills the 768 *)
(* entries plane by plane as the loops of boardToVector do.  The entry of  *)
(* index idx of the code is the element idx + 1 of the sequence.           *)
(***************************************************************************)
VectorLen == 768

pieceTypes == <<Pawn, Knight, Bishop, Rook, Queen, King>>

\* every plane takes the white pieces
planeColorWhite(planeIdx) == White

planeColor(planeIdx) == IF planeIdx >= 6 THEN Black ELSE White

vectorOf(b) ==
  [i \in 1..VectorLen |->
     LET idx == i - 1
         planeIdx == idx \div 64
         row == (idx % 64) \div 8
         col == idx % 8
         piece == b.Cells[row][col]
     IN IF piece.Type = pieceTypes[(planeIdx % 6) + 1] /\ piece.Color = planeColor(planeIdx)
        THEN One
        ELSE 0]

InitVector ==
  /\ InitGame
  /\ networks = << >>
  /\ agents = << >>
  /\ chosen = Nil
  /\ learned = Nil
  /\ goroutines = << >>
  /\ aiStates = << >>
  /\ resets = 0

\* the game goes on by the next move of its line
VectorMove ==
  /\ step < Len(Lines[line])
  /\ PlayMove(Lines[line][step + 1])
  /\ step' = step + 1
  /\ aiStates' = << >>
  /\ UNCHANGED <<free, networks, agents, chosen, learned, goroutines, resets, storeVars>>

\* vector := agent.boardToVector(board)
TestBoardToVector ==
  /\ aiStates = << >>
  /\ aiStates' = <<vectorOf(board)>>
  /\ UNCHANGED <<board, clone, legalMoves, prev, lastMove, unmoved, line, step, free>>
  /\ UNCHANGED <<networks, agents, chosen, learned, goroutines, resets, storeVars>>

NextVector == VectorMove \/ TestBoardToVector

SpecVector == InitVector /\ [][NextVector]_vars

Occupied(b) == {p \in Squares : b.Cells[p.Row][p.Col].Type # Empty}

Ones(vector) == {i \in 1..VectorLen : vector[i] = One}

(***************************************************************************)
(* C26: boardToVector returns 768 entries, each 0.0 or 1.0; the entry      *)
(* plane*64 + row*8 + col is 1.0 exactly when the square holds the piece   *)
(* kind and colour of the plane (white pawn, knight, bishop, rook, queen,  *)
(* king, then the black ones); so there are as many 1.0 as squares that    *)
(* are not empty, 32 on the initial position, and no square has a 1.0 in   *)
(* two planes.                                                             *)
(***************************************************************************)
VectorOfBoard ==
  aiStates # << >> =>
    LET vector == aiStates[1]
    IN /\ Len(vector) = 768
       /\ \A i \in 1..768 : vector[i] \in {0, One}
       /\ \A plane \in 0..11, p \in Squares :
            vector[plane * 64 + p.Row * 8 + p.Col + 1] = One
              <=> /\ board.Cells[p.Row][p.Col].Type = (plane % 6) + 1
                  /\ board.Cells[p.Row][p.Col].Color = (IF plane < 6 THEN White ELSE Black)
       /\ Cardinality(Ones(vector)) = Cardinality(Occupied(board))
       /\ board = NewBoard => Cardinality(Ones(vector)) = 32
       /\ \A p \in Squares :
            Cardinality({plane \in 0..11 :
                           vector[plane * 64 + p.Row * 8 + p.Col + 1] = One}) <= 1
       /\ {i - 1 : i \in Ones(vector)} = boardToVector(board)

VectorAfterCapture ==
  /\ aiStates # << >>
  /\ Cardinality(Ones(aiStates[1])) < 32
  /\ Cardinality(Ones(aiStates[1])) = Cardinality(Occupied(board))

(***************************************************************************)
(* The position hash.  A game follows a line; the caller keeps a copy of   *)
(* the board at one ply and the hash of it as a move record, and at the    *)
(* same or a later ply records the hash of the board again, as PlayGame    *)
(* does before every move.  A hash is the sequence of its characters.      *)
(***************************************************************************)
\* 1. e4 Nf6 2. Qe2 Ng8 3. Qf3 Nf6 4. Qd1 Ng8 5. Ke2 Nf6 6. Ke1 Ng8
QueenTriangle ==
  <<S(6, 4, 4, 4), S(0, 6, 2, 5), S(7, 3, 6, 4), S(2, 5, 0, 6), S(6, 4, 5, 5),
    S(0, 6, 2, 5), S(5, 5, 7, 3), S(2, 5, 0, 6), S(7, 4, 6, 4), S(0, 6, 2, 5),
    S(6, 4, 7, 4), S(2, 5, 0, 6)>>

HashLines == <<QueenTriangle, EnPassantPin, RookSwap, KnightShuffle \o FoolsMate>>

\* the characters, by their codes
Dot == 46
LowerP == 112
LowerN == 110
LowerB == 98
LowerR == 114
LowerQ == 113
LowerK == 107

\* the colour is not looked at
pieceToCharLower(piece) ==
  CASE piece.Type = Pawn -> LowerP
    [] piece.Type = Knight -> LowerN
    [] piece.Type = Bishop -> LowerB
    [] piece.Type = Rook -> LowerR
    [] piece.Type = Queen -> LowerQ
    [] piece.Type = King -> LowerK
    [] OTHER -> Dot

pieceToChar(piece) ==
  LET char == CASE piece.Type = Pawn -> LowerP
                [] piece.Type = Knight -> LowerN
                [] piece.Type = Bishop -> LowerB
                [] piece.Type = Rook -> LowerR
                [] piece.Type = Queen -> LowerQ
                [] piece.Type = King -> LowerK
                [] OTHER -> Dot
  IN IF piece.Color = White THEN char - 32 ELSE char

\* hash += ... for row 0..7 and col 0..7
GenerateBoardHash(b) ==
  [i \in 1..64 |->
     LET piece == b.Cells[(i - 1) \div 8][(i - 1) % 8]
     IN IF piece.Type = Empty THEN Dot ELSE pieceToChar(piece)]

InitHash ==
  /\ InitBoard
  /\ line \in 1..Len(HashLines)
  /\ networks = << >>
  /\ agents = << >>
  /\ chosen = Nil
  /\ learned = Nil
  /\ goroutines = << >>
  /\ aiStates = << >>
  /\ resets = 0
  /\ stats = Nil
  /\ rates = << >>
  /\ ui = Nil
  /\ files = [f \in {GamesFile, MovesFile} |-> Nil]
  /\ db = NewDatabase(files)

hashVars == <<networks, agents, chosen, learned, goroutines, aiStates, resets>>

\* the game goes on by the next move of its line
HashMove ==
  /\ Len(db.moves) < 2
  /\ step < Len(HashLines[line])
  /\ PlayMove(HashLines[line][step + 1])
  /\ step' = step + 1
  /\ UNCHANGED <<free, hashVars, storeVars>>

\* boardHash := database.GenerateBoardHash(board), kept in a move record
RecordHash ==
  /\ Len(db.moves) < 2
  /\ db' = [db EXCEPT !.moves = Append(@, [MoveNumber |-> step,
                                           BoardHash |-> GenerateBoardHash(board)])]
  /\ clone' = IF clone = Nil THEN <<Clone(board)>> ELSE clone
  /\ UNCHANGED <<board, legalMoves, prev, lastMove, unmoved, line, step, free>>
  /\ UNCHANGED <<hashVars, stats, files, rates, ui>>

NextHash == HashMove \/ RecordHash

SpecHash == InitHash /\ [][NextHash]_vars

SamePiece(x, y) ==
  \/ x.Type = Empty /\ y.Type = Empty
  \/ x.Type = y.Type /\ x.Type # Empty /\ x.Color = y.Color

SameLayout(a, b) ==
  \A p \in Squares : SamePiece(a.Cells[p.Row][p.Col], b.Cells[p.Row][p.Col])

(***************************************************************************)
(* C27: GenerateBoardHash returns 64 characters, one per square in         *)
(* row-major order, and two boards have the same hash exactly when every   *)
(* square holds the same piece kind and colour, or is empty, on both,      *)
(* whatever the turn, the castling flags, the en-passant target and the    *)
(* move count are; the characters of two squares are the same exactly when *)
(* the squares hold the same piece kind and colour or are both empty.      *)
(***************************************************************************)
HashIsLayout ==
  Len(db.moves) = 2 =>
    /\ Len(db.moves[1].BoardHash) = 64 /\ Len(db.moves[2].BoardHash) = 64
    /\ \A p \in Squares :
         db.moves[2].BoardHash[p.Row * 8 + p.Col + 1] = 46
           <=> board.Cells[p.Row][p.Col].Type = Empty
    /\ (db.moves[1].BoardHash = db.moves[2].BoardHash) <=> SameLayout(clone[1], board)
    /\ \A p, q \in Squares :
         db.moves[1].BoardHash[p.Row * 8 + p.Col + 1]
             = db.moves[2].BoardHash[q.Row * 8 + q.Col + 1]
           <=> SamePiece(clone[1].Cells[p.Row][p.Col], board.Cells[q.Row][q.Col])

SameHashOtherState ==
  /\ Len(db.moves) = 2
  /\ db.moves[1].BoardHash = db.moves[2].BoardHash
  /\ clone[1].CurrentTurn # board.CurrentTurn
  /\ clone[1].EnPassantTarget # Nil /\ board.EnPassantTarget = Nil
  /\ clone[1].MovesCount # board.MovesCount
  /\ clone[1].WhiteKingMoved # board.WhiteKingMoved

(***************************************************************************)
(* The output of the network in float64.  The weight states looked at have *)
(* every weight and bias at zero except Bias3[0]: the hidden layers are    *)
(* zero for every finite input, and the sum of the output layer is         *)
(* Bias3[0].  A sum is a NaN or a whole number; an output is a NaN or a    *)
(* fixed-point number with One for 1.0.  math.Tanh returns 1 or -1 for an  *)
(* argument beyond 44.01 in size, and from 19.07 on its formula            *)
(* 1 - 2/(exp(2x) + 1) rounds to 1 in float64.  Train moves Bias3[0] by a  *)
(* velocity that depends on the target, the rates and the calls before;    *)
(* here it moves it to any of the sums.                                    *)
(***************************************************************************)
MaxTrains == 1
MaxForwards == 2

TanhOne == 761594156
TanhTwo == 964027580
TanhRoundsToOne == 20
TanhMaxLogHalf == 44

Sums ==
  {NaNFloat} \cup {Float(v) : v \in {0 - 45, 0 - 20, 0 - 2, 0 - 1, 0, 1, 2, 20, 45}}

\* math.Tanh
tanh(x) ==
  IF x.nan THEN NaNFloat
  ELSE IF abs(x.v) > TanhMaxLogHalf THEN Float(IF x.v < 0 THEN 0 - One ELSE One)
  ELSE LET z == IF abs(x.v) >= TanhRoundsToOne THEN One
                ELSE IF abs(x.v) = 2 THEN TanhTwo
                ELSE IF abs(x.v) = 1 THEN TanhOne
                ELSE 0
       IN Float(IF x.v < 0 THEN 0 - z ELSE z)

\* the inputs: the vector of a board, and the pattern of TestForward
ForwardInputs ==
  {vectorOf(NewBoard), [i \in 1..VectorLen |-> ((i - 1) % 2) * (One \div 2)]}

\* Forward of a network whose other weights are zero: the hidden layers are
\* relu(0), and the products with Weights3 add nothing to Bias3[0]
ForwardOutput(n, input) == tanh(n.Bias3)

InitForward ==
  /\ NoGame
  /\ stats = Nil
  /\ db = Nil
  /\ files = << >>
  /\ goroutines = <<[pc |-> "test", trains |-> 0]>>

forwardVars ==
  <<board, clone, legalMoves, prev, lastMove, unmoved, line, step, free,
    agents, chosen, aiStates, resets, storeVars>>

\* a network in one of the weight states
SetWeights ==
  /\ networks = << >>
  /\ \E sum \in Sums : networks' = <<[Bias3 |-> sum]>>
  /\ UNCHANGED <<forwardVars, learned, goroutines>>

\* output := network.Forward(input)
ForwardCall ==
  /\ networks # << >>
  /\ Len(learned) < MaxForwards
  /\ \E input \in ForwardInputs :
       learned' = Append(learned, [input |-> input,
                                   output |-> ForwardOutput(networks[1], input)])
  /\ UNCHANGED <<forwardVars, networks, goroutines>>

\* network.Train(input, target)
TrainCall ==
  /\ networks # << >>
  /\ goroutines[1].trains < MaxTrains
  /\ \E sum \in Sums : networks' = <<[Bias3 |-> sum]>>
  /\ learned' = << >>
  /\ goroutines' = [goroutines EXCEPT ![1].trains = @ + 1]
  /\ UNCHANGED forwardVars

NextForward == SetWeights \/ ForwardCall \/ TrainCall

SpecForward == InitForward /\ [][NextForward]_vars

FloatLt(x, y) == ~x.nan /\ ~y.nan /\ x.v < y.v

(***************************************************************************)
(* C28: for every finite input of length 768 and every weight state        *)
(* Forward returns a value strictly between -1 and 1, and two calls with   *)
(* the same input and no Train between them return the same value.         *)
(***************************************************************************)
ForwardInsideUnit ==
  /\ \A k \in 1..Len(learned) :
       /\ FloatGt(learned[k].output, Float(0 - One))
       /\ FloatLt(learned[k].output, Float(One))
  /\ \A j, k \in 1..Len(learned) :
       learned[j].input = learned[k].input => learned[j].output = learned[k].output

(***************************************************************************)
(* The search on its own.  The agent is asked for its greedy move (epsilon *)
(* 0) at chosen plies of the lines: the start, a mate in one, a position   *)
(* with one legal move, the move before a stalemate, the last move before  *)
(* the move limit and a board past it.  chosen keeps the board, the        *)
(* weights, what minimax returned and what ChooseMove returned.            *)
(***************************************************************************)
SearchAt ==
  <<{}, {3}, {}, {}, {18}, {}, {}, {}, {MoveLimit, MoveLimit + 2}, {3}>>

\* the move of the depth-2 search on b for every weight state from w on
RECURSIVE Searches(_, _)
Searches(b, w) ==
  IF w > NumWeights THEN << >>
  ELSE <<minimax(w, b, 2, -MaxFloat64, MaxFloat64, TRUE).move>> \o Searches(b, w + 1)

\* ChooseMove with epsilon 0 for every weight state; the random index is
\* drawn only when a search returned no move
SearchWith(searches, moves) ==
  \E pick \in 0..MaxPick :
    /\ \/ pick = 0
       \/ /\ pick < Len(moves)
          /\ \E w \in 1..Len(searches) : searches[w] = NoBestMove
    /\ chosen' = <<[board |-> board, pick |-> pick,
                    results |-> [w \in 1..Len(searches) |->
                      [search |-> searches[w],
                       move |-> ChooseAmong(moves, searches[w],
                                            [NewAgent(board.CurrentTurn, 1) EXCEPT !.Epsilon = 0],
                                            0, pick)]]]>>

Search ==
  /\ chosen = Nil
  /\ step \in SearchAt[line]
  /\ SearchWith(Searches(board, 0), GetLegalMoves(board))
  /\ UNCHANGED <<board, clone, legalMoves, prev, lastMove, unmoved, line, step, free, storeVars>>
  /\ UNCHANGED <<networks, agents, learned, goroutines, aiStates, resets>>

NextSearch == LineMove \/ Search

SpecSearch == Init /\ [][NextSearch]_vars

\* the checksums of the inputs of the positions after the replies from the
\* k-th on
RECURSIVE Checksums(_, _, _)
Checksums(c, replies, k) ==
  IF k > Len(replies) THEN << >>
  ELSE <<Checksum(boardToVector(MakeMove(Clone(c), replies[k])))>>
         \o Checksums(c, replies, k + 1)

\* what the search evaluates below the position c after a move: c itself
\* when the game is over there, otherwise the positions after every reply
Below(c, replies) ==
  [over |-> c.GameOver \/ Len(replies) = 0,
   sums |-> IF c.GameOver \/ Len(replies) = 0
            THEN <<Checksum(boardToVector(c))>>
            ELSE Checksums(c, replies, 1)]

BelowMove(c) == Below(c, IF c.GameOver THEN << >> ELSE GetLegalMoves(c))

\* the same for the moves from the i-th on
RECURSIVE Tree(_, _, _)
Tree(b, moves, i) ==
  IF i > Len(moves) THEN << >>
  ELSE <<BelowMove(MakeMove(Clone(b), moves[i]))>> \o Tree(b, moves, i + 1)

\* the minimizing loop without its cut-off
RECURSIVE PlainMin(_, _, _, _)
PlainMin(weights, sums, k, minEval) ==
  IF k > Len(sums) THEN minEval
  ELSE PlainMin(weights, sums, k + 1,
                IF Lt(Output(weights, sums[k]), minEval)
                THEN Output(weights, sums[k]) ELSE minEval)

\* the value of a move without a cut-off
PlainValue(weights, t) ==
  IF t.over THEN Output(weights, t.sums[1]) ELSE PlainMin(weights, t.sums, 1, MaxFloat64)

\* the maximizing loop without its cut-off
RECURSIVE PlainMax(_, _, _, _, _, _)
PlainMax(weights, tree, moves, i, maxEval, bestMove) ==
  IF i > Len(moves) THEN bestMove
  ELSE IF Gt(PlainValue(weights, tree[i]), maxEval)
       THEN PlainMax(weights, tree, moves, i + 1, PlainValue(weights, tree[i]), moves[i])
       ELSE PlainMax(weights, tree, moves, i + 1, maxEval, bestMove)

\* the least evaluation below a move, in numbers
Least(weights, t) ==
  CHOOSE e \in {Output(weights, t.sums[k]) : k \in 1..Len(t.sums)} :
    \A k \in 1..Len(t.sums) : e <= Output(weights, t.sums[k])

\* the first move whose value is the greatest
FirstMaximal(weights, tree, moves) ==
  moves[CHOOSE i \in 1..Len(moves) :
          /\ \A j \in 1..Len(moves) : Least(weights, tree[j]) <= Least(weights, tree[i])
          /\ \A j \in 1..(i - 1) : Least(weights, tree[j]) < Least(weights, tree[i])]

GreedyIsFirstMaximal(c, moves, tree) ==
  \A weights \in 0..(NumWeights - 1) :
    Len(moves) > 0 => c.results[weights + 1].move = FirstMaximal(weights, tree, moves)

GreedyIsPlain(c, moves, tree) ==
  \A weights \in 0..NumWeights :
    LET r == c.results[weights + 1]
    IN /\ r.search = (IF c.board.GameOver \/ Len(moves) = 0 THEN NoBestMove
                      ELSE PlainMax(weights, tree, moves, 1, -MaxFloat64, NoBestMove))
       /\ Len(moves) > 0 =>
            r.move = (IF r.search.From.Row = -1 THEN moves[c.pick + 1] ELSE r.search)
       /\ (Len(moves) > 0 /\ ~c.board.GameOver /\ weights # NaNWeights) =>
            r.search = FirstMaximal(weights, tree, moves)

(***************************************************************************)
(* C29: for every board with legal moves and every evaluation, the greedy  *)
(* branch of ChooseMove returns the move of exhaustive depth-2 minimax     *)
(* without pruning: the first move in GetLegalMoves order whose least      *)
(* evaluation over the replies is the greatest.                            *)
(***************************************************************************)
AlphaBetaIsMinimax ==
  chosen # Nil =>
    GreedyIsFirstMaximal(chosen[1], GetLegalMoves(chosen[1].board),
                         Tree(chosen[1].board, GetLegalMoves(chosen[1].board), 1))

(***************************************************************************)
(* C29, amended: on every board on which the game is not over, the search  *)
(* with alpha-beta pruning returns what the same loops without the cut-off *)
(* return; when no evaluation is a NaN that is the first move in           *)
(* GetLegalMoves order whose value is the greatest, the value of a move    *)
(* being the evaluation of the position after it when the game is over     *)
(* there and otherwise the least evaluation over the replies.  On a board  *)
(* on which the game is over the search returns no move.  The greedy       *)
(* branch of ChooseMove returns the move of the search, and a move drawn   *)
(* at random when the search returned none.                                *)
(***************************************************************************)
AlphaBetaIsMinimaxInPlay ==
  chosen # Nil =>
    GreedyIsPlain(chosen[1], GetLegalMoves(chosen[1].board),
                  Tree(chosen[1].board, GetLegalMoves(chosen[1].board), 1))

\* the search took a move that is not the first of the list
SearchedBeyondFirst ==
  /\ chosen # Nil
  /\ ~chosen[1].board.GameOver
  /\ \E w \in 1..NumWeights :
       /\ chosen[1].results[w].search # NoBestMove
       /\ chosen[1].results[w].move = chosen[1].results[w].search
       /\ chosen[1].results[w].move # GetLegalMoves(chosen[1].board)[1]

(***************************************************************************)
(* The end of a game in the web UI.  The client plays White with           *)
(* handleMove, the goroutine started after each of its moves plays Black   *)
(* for the agent; with epsilon above 0 ChooseMove can return every legal   *)
(* move, and the games played are those of the lines below.                *)
(***************************************************************************)
\* 49 rounds of the knights, then 1. e4 f6 2. d4 a6 3. Qh5+
LongCheck ==
  [i \in 1..(MoveLimit - 4) |-> KnightShuffle[((i - 1) % 4) + 1]]
    \o <<S(6, 4, 4, 4), S(1, 5, 2, 5), S(6, 3, 4, 3), S(1, 0, 2, 0), S(7, 3, 3, 7)>>

EndLines == <<FoolsMate, ScholarsMate, Stalemate, LongGame, LongCheck>>

InitGameEnd ==
  /\ InitBoard
  /\ line \in 1..Len(EndLines)
  /\ stats = Nil
  /\ db = Nil
  /\ files = << >>
  /\ rates = << >>
  /\ ui = Nil
  /\ networks = <<NumWeights - 1>>
  /\ agents = [agent |-> NewAgent(Black, 1)]
  /\ chosen = Nil
  /\ learned = Nil
  /\ goroutines = << >>
  /\ aiStates = << >>
  /\ resets = 0

\* the client moves a piece of its own colour
ClientMove ==
  /\ step < Len(EndLines[line])
  /\ board.CurrentTurn # agents.agent.Color
  /\ handleMove(EndLines[line][step + 1])
  /\ step' = step + 1
  /\ UNCHANGED <<clone, legalMoves, prev, lastMove, unmoved, line, free, storeVars, chosen, resets>>

\* ChooseMove has drawn a number below epsilon and the move of the line
\* among the legal moves; the goroutine applies it, or drops it
GoLineMove(i, move) ==
  /\ goroutines[i].pc = "search"
  /\ agents.agent.Epsilon > 0
  /\ \E k \in 1..Len(GetLegalMoves(goroutines[i].boardClone[1])) :
       GetLegalMoves(goroutines[i].boardClone[1])[k] = move
  /\ IF ~board.GameOver /\ board.CurrentTurn = agents.agent.Color
     THEN GoMakeMove(i, move)
     ELSE /\ goroutines' = Return(goroutines, i)
          /\ UNCHANGED <<board, networks, agents, chosen, learned, aiStates>>
  /\ step' = step + 1
  /\ UNCHANGED <<clone, legalMoves, prev, lastMove, unmoved, line, free, storeVars, resets>>

AgentMove ==
  /\ step < Len(EndLines[line])
  /\ \E i \in 1..Len(goroutines) : GoLineMove(i, EndLines[line][step + 1])

\* a request of the client that arrives when the game is over
LateMove ==
  /\ step < Len(EndLines[line])
  /\ board.GameOver
  /\ handleMove(EndLines[line][step + 1])
  /\ step' = step + 1
  /\ UNCHANGED <<clone, legalMoves, prev, lastMove, unmoved, line, free, storeVars, chosen, resets>>

\* the client asks for a new game when the game is over
ResetGame ==
  /\ resets < MaxResets
  /\ board.GameOver
  /\ board' = handleReset(board)
  /\ resets' = resets + 1
  /\ step' = 0
  /\ aiStates' = << >>
  /\ UNCHANGED <<clone, legalMoves, prev, lastMove, unmoved, line, free, storeVars>>
  /\ UNCHANGED <<networks, agents, chosen, learned, goroutines>>

NextGameEnd == ClientMove \/ Record \/ AgentMove \/ LateMove \/ ResetGame

SpecGameEnd == InitGameEnd /\ [][NextGameEnd]_vars

\* how the game on b has ended
Stalemated(b) == NoLegalMove(b) /\ ~KingAttacked(b.Cells, b.CurrentTurn)
PastMoveLimit(b) == b.MovesCount > MoveLimit

(***************************************************************************)
(* C30: handleGameEnd takes the game for a draw, with reward 0.5 and the   *)
(* winner "draw" in the statistics, exactly when the game has ended by     *)
(* stalemate or by the move limit of the board; otherwise the reward is    *)
(* 1.0 exactly when the opponent of the agent is checkmated and 0.0 when   *)
(* the agent is.                                                           *)
(***************************************************************************)
DrawIsStalemateOrLimit ==
  learned # Nil =>
    LET b == learned[1].board
        draw == Stalemated(b) \/ PastMoveLimit(b)
    IN /\ (learned[1].reward = One \div 2) <=> draw
       /\ (learned[1].result.Winner = "draw") <=> draw
       /\ ~draw =>
            /\ Checkmated(b)
            /\ learned[1].reward = (IF b.CurrentTurn # agents.agent.Color THEN One ELSE 0)

(***************************************************************************)
(* Self-play of the web UI with its handlers.  The goroutine of            *)
(* runSelfPlay, the handler of a stop request and the handler of a status  *)
(* request each have a position; a handler that is called waits for the    *)
(* mutex of the UI.  The send on the unbuffered channel selfPlayStop and   *)
(* the receive of a select of runSelfPlay are one step; a select takes its *)
(* default case when no sender waits.  The statements between Lock and     *)
(* Unlock of runSelfPlay are one step.  With epsilon never below 0.01      *)
(* ChooseMove can return every legal move, and the games played are those  *)
(* of the lines RunLines.                                                  *)
(***************************************************************************)
RunLines == {2}
MaxGames == 2

InitRun ==
  /\ InitBoard
  /\ line \in RunLines
  /\ stats = Nil
  /\ db = Nil
  /\ files = << >>
  /\ rates = << >>
  /\ ui = [mutex |-> "", selfPlayRunning |-> FALSE, selfPlayStop |-> Nil]
  /\ agents = WebAgents
  /\ networks = <<NumWeights - 1, NumWeights - 1, NumWeights - 1>>
  /\ chosen = Nil
  /\ learned = Nil
  /\ goroutines = [run |-> [pc |-> "none", games |-> 0, learns |-> 0],
                   stop |-> "idle", status |-> "idle"]
  /\ aiStates = << >>
  /\ resets = 0

boardVars == <<board, clone, legalMoves, prev, lastMove, unmoved, line, step, free>>
runVars == <<networks, agents, chosen, learned, aiStates, resets, stats, db, files, rates>>

\* handleSelfPlayStart, on the first request of the session
handleSelfPlayStart ==
  /\ ui.mutex = ""
  /\ ui.selfPlayStop = Nil
  /\ ~ui.selfPlayRunning
  /\ ui' = [ui EXCEPT !.selfPlayRunning = TRUE, !.selfPlayStop = <<"chan">>]
  /\ goroutines' = [goroutines EXCEPT !.run.pc = "outer"]
  /\ UNCHANGED <<boardVars, runVars>>

\* a request for handleSelfPlayStop arrives
StopCalled ==
  /\ goroutines.stop = "idle"
  /\ ui.selfPlayStop # Nil
  /\ goroutines' = [goroutines EXCEPT !.stop = "lock"]
  /\ UNCHANGED <<boardVars, runVars, ui>>

\* handleSelfPlayStop takes the mutex and returns an error, or goes on to
\* its send with the mutex held
StopLock ==
  /\ goroutines.stop = "lock"
  /\ ui.mutex = ""
  /\ IF ~ui.selfPlayRunning
     THEN /\ goroutines' = [goroutines EXCEPT !.stop = "idle"]
          /\ UNCHANGED ui
     ELSE /\ goroutines' = [goroutines EXCEPT !.stop = "send"]
          /\ ui' = [ui EXCEPT !.mutex = "stop"]
  /\ UNCHANGED <<boardVars, runVars>>

\* a select of runSelfPlay receives what handleSelfPlayStop sends:
\* runSelfPlay returns, the handler sets selfPlayRunning and returns
StopReceived ==
  /\ goroutines.stop = "send"
  /\ goroutines.run.pc \in {"outer", "inner"}
  /\ goroutines' = [goroutines EXCEPT !.run.pc = "returned", !.stop = "idle"]
  /\ ui' = [ui EXCEPT !.selfPlayRunning = FALSE, !.mutex = ""]
  /\ UNCHANGED <<boardVars, runVars>>

\* a select of runSelfPlay with no sender waiting takes its default case
RunDefault ==
  /\ goroutines.run.pc \in {"outer", "inner"}
  /\ goroutines.stop # "send"
  /\ goroutines' = [goroutines EXCEPT !.run.pc =
                      IF @ = "outer" THEN "outerLock" ELSE "innerLock"]
  /\ UNCHANGED <<boardVars, runVars, ui>>

\* the default case of the outer select: a new board, empty histories
RunNewGame ==
  /\ goroutines.run.pc = "outerLock"
  /\ ui.mutex = ""
  /\ goroutines.run.games < MaxGames
  /\ board' = NewBoard
  /\ line' \in RunLines
  /\ step' = 0
  /\ agents' = [agents EXCEPT !.whiteAgent.StateHistory = << >>,
                              !.blackAgent.StateHistory = << >>]
  /\ goroutines' = [goroutines EXCEPT !.run.pc = "inner", !.run.games = @ + 1]
  /\ UNCHANGED <<clone, legalMoves, prev, lastMove, unmoved, free, storeVars>>
  /\ UNCHANGED <<networks, chosen, learned, aiStates, resets>>

\* the default case of the inner select on a board with the game over: the
\* agents learn, and the break leaves the select statement
RunLearn ==
  /\ goroutines.run.pc = "innerLock"
  /\ ui.mutex = ""
  /\ board.GameOver
  /\ LET whiteReward == IF board.Winner = White THEN One
                        ELSE IF board.Winner = Black THEN 0 ELSE One \div 2
         blackReward == IF board.Winner = White THEN 0
                        ELSE IF board.Winner = Black THEN One ELSE One \div 2
     IN LearnBoth("runSelfPlay",
                  [winner |-> "", whiteReward |-> whiteReward, blackReward |-> blackReward],
                  TrainCalls(agents.whiteAgent, whiteReward)
                    \o TrainCalls(agents.blackAgent, blackReward),
                  Learn(agents.whiteAgent, whiteReward),
                  Learn(agents.blackAgent, blackReward))
  /\ goroutines' = [goroutines EXCEPT !.run.pc = "inner",
                                      !.run.learns = min(@ + 1, MaxLearns)]

\* the default case of the inner select on a board with the game going on:
\* RecordState, ChooseMove, MakeMove and the pause
RunMove ==
  /\ goroutines.run.pc = "innerLock"
  /\ ui.mutex = ""
  /\ ~board.GameOver
  /\ step < Len(Lines[line])
  /\ \E pick \in 0..(Len(GetLegalMoves(board)) - 1) :
       ChooseAmong(GetLegalMoves(board), NoBestMove, agents[currentAgent(board)], 0, pick)
         = Lines[line][step + 1]
  /\ Lines[line][step + 1].From.Row # -1
  /\ agents' = [agents EXCEPT ![currentAgent(board)] = RecordState(@, board)]
  /\ board' = MakeMove(board, Lines[line][step + 1])
  /\ step' = step + 1
  /\ goroutines' = [goroutines EXCEPT !.run.pc = "inner"]
  /\ UNCHANGED <<clone, legalMoves, prev, lastMove, unmoved, line, free, storeVars>>
  /\ UNCHANGED <<networks, chosen, learned, aiStates, resets>>

\* a request for handleSelfPlayStatus arrives
StatusCalled ==
  /\ goroutines.status = "idle"
  /\ goroutines' = [goroutines EXCEPT !.status = "lock"]
  /\ UNCHANGED <<boardVars, runVars, ui>>

\* handleSelfPlayStatus takes the mutex, answers and releases it
handleSelfPlayStatus ==
  /\ goroutines.status = "lock"
  /\ ui.mutex = ""
  /\ goroutines' = [goroutines EXCEPT !.status = "idle"]
  /\ UNCHANGED <<boardVars, runVars, ui>>

runSelfPlay == RunDefault \/ RunNewGame \/ RunLearn \/ RunMove

handleSelfPlayStop == StopLock \/ StopReceived

NextRun ==
  \/ handleSelfPlayStart
  \/ StopCalled
  \/ StopLock
  \/ StopReceived
  \/ RunDefault
  \/ RunNewGame
  \/ RunLearn
  \/ RunMove
  \/ StatusCalled
  \/ handleSelfPlayStatus

SpecRun == InitRun /\ [][NextRun]_vars

\* the states in which RunMove can take a step
RunMoveEnabled ==
  /\ goroutines.run.pc = "innerLock"
  /\ ui.mutex = ""
  /\ ~board.GameOver
  /\ step < Len(Lines[line])
  /\ IsValidMove(board, Lines[line][step + 1])

\* every goroutine that can take a step is scheduled; requests arrive or
\* not.  The weak fairness of RunMove is written out with the states in
\* which it can take a step.
SpecRunFair ==
  /\ SpecRun
  /\ WF_vars(RunDefault \/ RunNewGame \/ RunLearn)
  /\ []<>~RunMoveEnabled \/ []<><<RunMove>>_vars
  /\ WF_vars(handleSelfPlayStop)
  /\ WF_vars(handleSelfPlayStatus)

\* runSelfPlay is in its g-th game and the game is over
Finished(g) ==
  /\ goroutines.run.games = g
  /\ goroutines.run.pc \in {"inner", "innerLock"}
  /\ board.GameOver

(***************************************************************************)
(* C31: after every game of runSelfPlay that has reached GameOver the next *)
(* game begins on a new board, unless a stop is requested.                 *)
(***************************************************************************)
NextGameBegins ==
  \A g \in 1..MaxGames :
    Finished(g) ~> (goroutines.run.games > g \/ goroutines.stop # "idle")

(***************************************************************************)
(* C32: a call of handleSelfPlayStop while self-play is running returns:   *)
(* runSelfPlay has returned then and the mutex of the UI is free.          *)
(***************************************************************************)
StopReturns ==
  (goroutines.stop = "lock" /\ ui.selfPlayRunning)
    ~> (goroutines.stop = "idle" /\ goroutines.run.pc = "returned" /\ ui.mutex = "")

(***************************************************************************)
(* C33: once the shared board of the web game has GameOver set, no move is *)
(* applied to it before a reset, so that handleGameEnd runs once for the   *)
(* game.                                                                   *)
(***************************************************************************)
NoMoveAfterGameOver ==
  [][board.GameOver => (board' = board \/ resets' # resets)]_vars

(***************************************************************************)
(* C34: handleReset leaves the shared board equal to NewBoard() in every   *)
(* field.                                                                  *)
(***************************************************************************)
ResetRestoresNewBoard ==
  [][resets' # resets => board' = NewBoard]_vars

\* the agent who as it was before the update u
Before(u, who) ==
  [Network |-> u.networks[who], Color |-> IF who = "whiteAgent" THEN White ELSE Black,
   Epsilon |-> u.epsilons[who], Gamma |-> u.gammas[who],
   StateHistory |-> u.histories[who]]

(***************************************************************************)
(* C35: for all histories of the two agents, the empty ones among them,    *)
(* and all rewards, trainSharedNetwork makes the Train calls that          *)
(* whiteAgent.Learn followed by blackAgent.Learn makes, in the same order, *)
(* and leaves the two values of epsilon that they leave.                   *)
(***************************************************************************)
SharedEqualsTwoLearns ==
  (learned # Nil /\ learned[1].path = "trainSharedNetwork") =>
    LET u == learned[1]
        white == Before(u, "whiteAgent")
        black == Before(u, "blackAgent")
    IN /\ u.calls = TrainCalls(white, u.rewards.whiteAgent)
                      \o TrainCalls(black, u.rewards.blackAgent)
       /\ u.decayed.whiteAgent = Learn(white, u.rewards.whiteAgent).Epsilon
       /\ u.decayed.blackAgent = Learn(black, u.rewards.blackAgent).Epsilon

\* the same when neither history is empty
SharedEqualsTwoLearnsWithHistory ==
  (learned # Nil /\ learned[1].path = "trainSharedNetwork"
     /\ learned[1].histories.whiteAgent # << >> /\ learned[1].histories.blackAgent # << >>)
    => SharedEqualsTwoLearns

(***************************************************************************)
(* Games in which pawns reach the far rank, a pawn is taken in passing,    *)
(* kings castle and pieces are taken.  A game follows one of the lines     *)
(* below and may leave it for freely chosen moves from ply PieceFreeFrom   *)
(* of that line on, as in the games above.                                 *)
(***************************************************************************)
\* 1. h4 g5 2. hxg5 Nf6 3. g6 Ng4 4. g7 Nf6 5. gxh8=Q
WhitePromotion ==
  <<S(6, 7, 4, 7), S(1, 6, 3, 6), S(4, 7, 3, 6), S(0, 6, 2, 5), S(3, 6, 2, 6),
    S(2, 5, 4, 6), S(2, 6, 1, 6), S(4, 6, 2, 5), S(1, 6, 0, 7)>>

\* 1. g4 h5 2. Nf3 hxg4 3. Nd4 g3 4. Nf3 g2 5. Nd4 g1=Q
BlackPromotion ==
  <<S(6, 6, 4, 6), S(1, 7, 3, 7), S(7, 6, 5, 5), S(3, 7, 4, 6), S(5, 5, 4, 3),
    S(4, 6, 5, 6), S(4, 3, 5, 5), S(5, 6, 6, 6), S(5, 5, 4, 3), S(6, 6, 7, 6)>>

\* 1. d4 d5 2. Nc3 Nc6 3. Bf4 Bf5 4. Qd2 Qd7 5. O-O-O
LongCastle ==
  <<S(6, 3, 4, 3), S(1, 3, 3, 3), S(7, 1, 5, 2), S(0, 1, 2, 2), S(7, 2, 4, 5),
    S(0, 2, 3, 5), S(7, 3, 6, 3), S(0, 3, 1, 3), S(7, 4, 7, 2)>>

PieceLines ==
  <<WhitePromotion, BlackPromotion, EnPassantPin, LongCastle, ShortCastle, RookSwap>>
PieceFreeFrom == <<8, 9, 12, 8, 6, 16>>

InitPieces ==
  /\ InitBoard
  /\ line \in 1..Len(PieceLines)
  /\ stats = Nil
  /\ db = Nil
  /\ files = << >>
  /\ rates = << >>
  /\ ui = Nil
  /\ networks = << >>
  /\ agents = << >>
  /\ chosen = Nil
  /\ learned = Nil
  /\ goroutines = << >>
  /\ aiStates = << >>
  /\ resets = 0

PieceLineMove ==
  /\ free = 0
  /\ step < Len(PieceLines[line])
  /\ PlayMove(PieceLines[line][step + 1])
  /\ step' = step + 1
  /\ UNCHANGED free
  /\ UNCHANGED agentVars

PieceFreeMove ==
  /\ free < MaxFree
  /\ step >= PieceFreeFrom[line]
  /\ \E move \in Moves : PlayMove(move)
  /\ free' = free + 1
  /\ UNCHANGED step
  /\ UNCHANGED agentVars

NextPieces == PieceLineMove \/ PieceFreeMove

SpecPieces == InitPieces /\ [][NextPieces]_vars

\* the piece of b on square p
At(b, p) == b.Cells[p.Row][p.Col]

\* the squares of b that hold a piece of the colour
PiecesOf(b, color) == {p \in Squares : At(b, p).Type # Empty /\ At(b, p).Color = color}

\* the last move took a pawn onto its far rank
ReachedFarRank ==
  /\ prev # Nil
  /\ At(prev[1], lastMove[1].From).Type = Pawn
  /\ lastMove[1].To.Row = (IF At(prev[1], lastMove[1].From).Color = White THEN 0 ELSE 7)

(***************************************************************************)
(* C36: no pawn stands on row 0 or on row 7, and a pawn that has moved     *)
(* onto its far rank, by a push or by a capture, has been replaced by a    *)
(* queen of its colour in the same MakeMove.                               *)
(***************************************************************************)
PromotionInvariant ==
  /\ \A p \in Squares : p.Row \in {0, 7} => At(board, p).Type # Pawn
  /\ ReachedFarRank =>
       At(board, lastMove[1].To) = Piece(Queen, At(prev[1], lastMove[1].From).Color)

\* a pawn has reached the far rank by a push, or by a capture
PromotedByPush == ReachedFarRank /\ lastMove[1].From.Col = lastMove[1].To.Col
PromotedByCapture == ReachedFarRank /\ lastMove[1].From.Col # lastMove[1].To.Col
BlackPromoted == ReachedFarRank /\ lastMove[1].To.Row = 7

\* the side that did not make the last move
Opponent == Other(Mover)

\* the squares from which the last move removed an opposing piece
Removed == PiecesOf(prev[1], Opponent) \ PiecesOf(board, Opponent)

\* the last move was a pawn's diagonal step onto an empty square
WasEnPassant ==
  /\ At(prev[1], lastMove[1].From).Type = Pawn
  /\ lastMove[1].From.Col # lastMove[1].To.Col
  /\ At(prev[1], lastMove[1].To).Type = Empty

\* the last move was a king's step of two columns
WasCastling ==
  /\ At(prev[1], lastMove[1].From).Type = King
  /\ abs(lastMove[1].To.Col - lastMove[1].From.Col) = 2

\* the en-passant target is the square a pawn has just passed over in a
\* double step
TargetBehindDoubleStep ==
  board.EnPassantTarget # Nil =>
    /\ At(prev[1], lastMove[1].From).Type = Pawn
    /\ abs(lastMove[1].To.Row - lastMove[1].From.Row) = 2
    /\ board.EnPassantTarget[1] =
         Position((lastMove[1].From.Row + lastMove[1].To.Row) \div 2, lastMove[1].To.Col)
    /\ At(board, lastMove[1].To) = Piece(Pawn, Mover)

(***************************************************************************)
(* C37: a move accepted by IsValidMove leaves the number of pieces of the  *)
(* moving side unchanged and removes at most one opposing piece, and       *)
(* changes no other opposing piece: the piece on the destination square    *)
(* for a normal capture, exactly the pawn that has just advanced two       *)
(* squares for an en-passant capture, and none for castling, where the     *)
(* rook moves from the corner to the square the king passed over.          *)
(***************************************************************************)
PieceConservation ==
  prev # Nil =>
    /\ Cardinality(PiecesOf(board, Mover)) = Cardinality(PiecesOf(prev[1], Mover))
    /\ Cardinality(Removed) <= 1
    /\ PiecesOf(board, Opponent) \subseteq PiecesOf(prev[1], Opponent)
    /\ \A p \in PiecesOf(board, Opponent) : At(board, p) = At(prev[1], p)
    /\ TargetBehindDoubleStep
    /\ IF WasEnPassant
       THEN /\ prev[1].EnPassantTarget = Ptr(lastMove[1].To)
            /\ Removed = {Position(lastMove[1].From.Row, lastMove[1].To.Col)}
            /\ At(prev[1], Position(lastMove[1].From.Row, lastMove[1].To.Col))
                 = Piece(Pawn, Opponent)
       ELSE IF WasCastling
       THEN LET row == lastMove[1].From.Row
                corner == IF lastMove[1].To.Col > lastMove[1].From.Col THEN 7 ELSE 0
                passed == (lastMove[1].From.Col + lastMove[1].To.Col) \div 2
            IN /\ Removed = {}
               /\ At(prev[1], Position(row, corner)) = Piece(Rook, Mover)
               /\ At(board, Position(row, corner)).Type = Empty
               /\ At(board, Position(row, passed)) = Piece(Rook, Mover)
               /\ At(board, lastMove[1].To) = Piece(King, Mover)
       ELSE Removed \subseteq {lastMove[1].To}

\* a pawn has been taken in passing; a king has castled to either side; a
\* piece has been taken on the destination square
TookEnPassant == prev # Nil /\ WasEnPassant /\ Removed # {}
CastledLong == prev # Nil /\ WasCastling /\ lastMove[1].To.Col = 2
CastledShort == prev # Nil /\ WasCastling /\ lastMove[1].To.Col = 6
TookOnDestination == prev # Nil /\ Removed = {lastMove[1].To}

(***************************************************************************)
(* C38: in the human-against-AI game every move of the agent's colour that *)
(* is applied to the shared board is applied by the goroutine that got it  *)
(* from ChooseMove, which then returns; handleMove applies no move of the  *)
(* agent's colour, also while a search is in flight.                       *)
(***************************************************************************)
AgentColourMovesAreChosen ==
  [][(board'.MovesCount = board.MovesCount + 1 /\ board.CurrentTurn = agents.agent.Color)
       => /\ Len(goroutines') = Len(goroutines) - 1
          /\ chosen' # Nil
          /\ chosen'[1].shared = board
          /\ step' = step]_vars

====
